---- MODULE Spec2Model ----
(***************************************************************************)
(* Enrollment / grading core of the campus management application:         *)
(* users, courses, the enrollment table, the legacy grade table and the    *)
(* request handlers that write them.                                       *)
(*                                                                         *)
(* Numbers.  Scores and credits are Python floats.  They are modelled in   *)
(* exact fixed point: a score or a credit is an integer number of tenths   *)
(* (score 59.9 is 599, credit 0.5 is 5), a grade point is an integer       *)
(* number of hundredths (4.6 is 460).  Form fields are strings, parsed by  *)
(* ParseFloat / ParseInt as float() / int() parse them.                    *)
(*                                                                         *)
(* Nullable columns hold None (the empty sequence) or Some(v) (<<v>>).     *)
(***************************************************************************)
EXTENDS Bags, FiniteSets, Integers, Sequences, TLC

VARIABLES
    users,        \* user table: id -> role
    usernames,    \* user table: id -> username
    courses,      \* course table: set of rows [id, name, credit, teacher_id]
    enrollments,  \* enrollment table: bag of rows [student_id, course_id, score]
    grades,       \* grade table: bag of rows [student_id, course_id, score]
    skills,       \* skill table: set of rows [id, name, current_level, target_level, user_id]
    certificates, \* certificate table: set of rows [id, user_id, status]
    notifications,\* notification table: set of rows [id, sender_id, recipient_id]
    files,        \* upload folder: set of file names <<user id, timestamp, filename>>
    inflight,     \* worker thread -> the request it is handling, with its session
    resp          \* the response to the last request: [op, code, val]

vars == <<users, usernames, courses, enrollments, grades, skills, certificates,
          notifications, files, inflight, resp>>

-----------------------------------------------------------------------------
(* Bounds of the model *)

MaxRows == 5         \* cap on the rows of the enrollment table
MaxSel == 2          \* longest course_ids list of one select_course request
MaxUsers == 7        \* cap on the rows of the user table
MaxSkills == 2       \* cap on the rows of the skill table
MaxCerts == 2        \* cap on the rows of the certificate table
MaxNotes == 3        \* cap on the rows of the notification table
MaxTime == 2         \* the timestamps (seconds) an upload can fall on
MaxWorkers == 2      \* requests the threaded server handles at a time

(* Program constants *)

STUDENT == 0
TEACHER == 1
ADMIN == 2
SCORE_MIN == 0       \* tenths
SCORE_MAX == 1000    \* tenths: 100
PASS_SCORE == 600    \* tenths: 60
CREDIT_MIN == 5      \* tenths: 0.5
CREDIT_MAX == 100    \* tenths: 10
LEVEL_MIN == 1       \* skill levels
LEVEL_MAX == 5
PENDING == 0         \* Certificate.status
APPROVED == 1

None == <<>>
Some(v) == <<v>>

-----------------------------------------------------------------------------
(* Form values *)

\* float(s) for the literals the requests of the model carry, in tenths
FloatLit ==
    ("-1" :> -10) @@ ("-0.1" :> -1) @@ ("0" :> 0) @@ ("0.4" :> 4) @@
    ("0.5" :> 5) @@ ("2" :> 20) @@ ("3" :> 30) @@ ("10" :> 100) @@
    ("10.1" :> 101) @@ ("59.9" :> 599) @@ ("60" :> 600) @@ ("90" :> 900) @@
    ("100" :> 1000) @@ ("100.1" :> 1001)

\* float(s): a number, NaN, or ValueError
ParseFloat(s) ==
    IF s \in DOMAIN FloatLit THEN [kind |-> "num", v |-> FloatLit[s]]
    ELSE IF s = "nan" THEN [kind |-> "nan", v |-> 0]
    ELSE [kind |-> "ValueError", v |-> 0]

\* int(s) for the literals the requests of the model carry
IntLit ==
    ("0" :> 0) @@ ("1" :> 1) @@ ("2" :> 2) @@ ("3" :> 3) @@ ("4" :> 4) @@ ("5" :> 5) @@
    ("6" :> 6) @@ ("7" :> 7) @@ ("8" :> 8) @@ ("9" :> 9)

IsInt(s) == s \in DOMAIN IntLit
ParseInt(s) == IntLit[s]

-----------------------------------------------------------------------------
(* Tables *)

UserIds == DOMAIN users

OneRow(r) == SetToBag({r})
Rows(B) == BagToSet(B)
\* filter_by(student_id=s, course_id=c): the distinct rows of the pair
OfPair(B, s, c) == {r \in Rows(B) : r.student_id = s /\ r.course_id = c}
\* filter_by(course_id=c)
OfCourse(B, c) == {r \in Rows(B) : r.course_id = c}
\* filter_by(student_id=s)
OfStudent(B, s) == {r \in Rows(B) : r.student_id = s}
\* Query.first(): one row of the result (no ORDER BY: the storage order decides)
First(S) == CHOOSE r \in S : TRUE
\* the table without the rows of course c
WithoutCourse(B, c) == [r \in {x \in DOMAIN B : x.course_id # c} |-> B[r]]

CourseById(id) == CHOOSE c \in courses : c.id = id
CourseExists(id) == \E c \in courses : c.id = id

\* the course ids the model hands out
CourseIds == {1, 2}

\* the integer primary key SQLite hands to a new course row
NewCourseId ==
    IF courses = {} THEN 1
    ELSE (CHOOSE m \in {c.id : c \in courses} : \A c \in courses : c.id <= m) + 1

\* the result of a handler: its outcome and the tables it commits
Res(code, val, cs, es, gs) ==
    [code |-> code, val |-> val, courses |-> cs, enrollments |-> es, grades |-> gs]
\* a handler that returns without committing (or rolls back)
Fail(code) == Res(code, <<>>, courses, enrollments, grades)

Commit(op, r) ==
    /\ courses' = r.courses
    /\ enrollments' = r.enrollments
    /\ grades' = r.grades
    /\ resp' = [op |-> op, code |-> r.code, val |-> r.val]
    /\ UNCHANGED <<users, usernames, skills, certificates, notifications, files, inflight>>

-----------------------------------------------------------------------------
(* Enrollment.grade_point *)

\* grade_point with a pass mark that 60 itself does not reach
grade_point_strict(score) ==
    IF score = None THEN 0
    ELSE IF score[1] <= PASS_SCORE THEN 0
    ELSE 100 + (score[1] - PASS_SCORE)

grade_point(score) ==
    IF score = None THEN 0
    ELSE IF score[1] < PASS_SCORE THEN 0
    ELSE 100 + (score[1] - PASS_SCORE)

-----------------------------------------------------------------------------
(* select_course / drop_course *)

RECURSIVE SelectLoopNoFlush(_, _, _, _)
\* select_course with a session that does not autoflush: the lookup sees only
\* the committed rows
SelectLoopNoFlush(u, ids, rows, count) ==
    IF ids = <<>> THEN [err |-> FALSE, rows |-> rows, count |-> count]
    ELSE IF ~IsInt(Head(ids)) THEN [err |-> TRUE, rows |-> rows, count |-> count]
    ELSE LET c == ParseInt(Head(ids))
         IN  IF OfPair(enrollments, u, c) = {}
             THEN SelectLoopNoFlush(u, Tail(ids),
                      rows (+) OneRow([student_id |-> u, course_id |-> c, score |-> None]),
                      count + 1)
             ELSE SelectLoopNoFlush(u, Tail(ids), rows, count)

RECURSIVE SelectLoop(_, _, _, _)
\* the loop over course_ids; the lookup autoflushes the rows added so far
SelectLoop(u, ids, rows, count) ==
    IF ids = <<>> THEN [err |-> FALSE, rows |-> rows, count |-> count]
    ELSE IF ~IsInt(Head(ids)) THEN [err |-> TRUE, rows |-> rows, count |-> count]
    ELSE LET c == ParseInt(Head(ids))
             existing == OfPair(rows, u, c)
         IN  IF existing = {}
             THEN SelectLoop(u, Tail(ids),
                      rows (+) OneRow([student_id |-> u, course_id |-> c, score |-> None]),
                      count + 1)
             ELSE SelectLoop(u, Tail(ids), rows, count)

\* select_course that reports the number of course ids it was given
SelectCourseCountAll(u, ids) ==
    IF users[u] # STUDENT THEN Fail("forbidden")
    ELSE IF ids = <<>> THEN Fail("validation")
    ELSE LET l == SelectLoop(u, ids, enrollments, 0)
         IN  IF l.err THEN Fail("error")
             ELSE IF l.count > 0 THEN Res("ok", <<Len(ids)>>, courses, l.rows, grades)
             ELSE Res("info", <<0>>, courses, enrollments, grades)

SelectCourse(u, ids) ==
    IF users[u] # STUDENT THEN Fail("forbidden")
    ELSE IF ids = <<>> THEN Fail("validation")
    ELSE LET l == SelectLoop(u, ids, enrollments, 0)
         IN  IF l.err THEN Fail("error")
             ELSE IF l.count > 0 THEN Res("ok", <<l.count>>, courses, l.rows, grades)
             ELSE Res("info", <<0>>, courses, enrollments, grades)

select_course(u, ids) ==
    /\ BagCardinality(SelectCourse(u, ids).enrollments) <= MaxRows
    /\ Commit("select_course", SelectCourse(u, ids))

\* drop_course that deletes every enrollment of the course
DropCourseAll(u, cid) ==
    IF users[u] # STUDENT THEN Fail("forbidden")
    ELSE IF OfPair(enrollments, u, cid) # {}
         THEN Res("ok", <<>>, courses, WithoutCourse(enrollments, cid), grades)
         ELSE Fail("notfound")

\* drop_course that deletes the grade row of the pair with the enrollment
DropCourseWithGrade(u, cid) ==
    IF users[u] # STUDENT THEN Fail("forbidden")
    ELSE LET enrollment == OfPair(enrollments, u, cid)
         IN  IF enrollment # {}
             THEN Res("ok", <<>>, courses, enrollments (-) OneRow(First(enrollment)),
                      [g \in {x \in DOMAIN grades :
                                 ~(x.student_id = u /\ x.course_id = cid)} |-> grades[g]])
             ELSE Fail("notfound")

DropCourse(u, cid) ==
    IF users[u] # STUDENT THEN Fail("forbidden")
    ELSE LET enrollment == OfPair(enrollments, u, cid)
         IN  IF enrollment # {}
             THEN Res("ok", <<>>, courses, enrollments (-) OneRow(First(enrollment)), grades)
             ELSE Fail("notfound")

drop_course(u, cid) == Commit("drop_course", DropCourse(u, cid))

-----------------------------------------------------------------------------
(* submit_score *)

\* the value SQLite stores for a float: NaN is stored as NULL
Stored(p) == IF p.kind = "nan" THEN None ELSE Some(p.v)

\* new_score < 0 or new_score > 100; every comparison with NaN is false
OutOfRange(p) == p.kind = "num" /\ (p.v < SCORE_MIN \/ p.v > SCORE_MAX)

\* filter_by(student_id=sid, course_id=cid) with the form's strings: SQLite
\* compares them with the integer columns as integers
PairOf(B, sid, cid) ==
    IF IsInt(sid) /\ IsInt(cid) THEN OfPair(B, ParseInt(sid), ParseInt(cid)) ELSE {}

\* grade.score = new_score for the pair's grade row, or a new Grade row
UpsertGrade(sid, cid, new_score) ==
    IF PairOf(grades, sid, cid) # {}
    THEN LET grade == First(PairOf(grades, sid, cid))
         IN  (grades (-) OneRow(grade)) (+) OneRow([grade EXCEPT !.score = new_score])
    ELSE grades (+) OneRow([student_id |-> ParseInt(sid), course_id |-> ParseInt(cid),
                            score |-> new_score])

\* submit_score with the Grade row written before the enrollment is looked up
SubmitScoreGradeFirst(u, sid, cid, sc) ==
    IF users[u] # TEACHER THEN Fail("forbidden")
    ELSE IF sid = "" \/ cid = "" THEN Fail("validation")
    ELSE IF sc = "" THEN Fail("validation")
    ELSE IF ParseFloat(sc).kind = "ValueError" THEN Fail("validation")
    ELSE IF OutOfRange(ParseFloat(sc)) THEN Fail("validation")
    ELSE IF ~(IsInt(sid) /\ IsInt(cid)) THEN Fail("notfound")
    ELSE IF PairOf(enrollments, sid, cid) = {}
         THEN Res("notfound", <<>>, courses, enrollments,
                  UpsertGrade(sid, cid, Stored(ParseFloat(sc))))
    ELSE LET new_score == Stored(ParseFloat(sc))
             enrollment == First(PairOf(enrollments, sid, cid))
             es == (enrollments (-) OneRow(enrollment))
                       (+) OneRow([enrollment EXCEPT !.score = new_score])
         IN  Res("ok", <<grade_point(new_score)>>, courses, es,
                 UpsertGrade(sid, cid, new_score))

SubmitScore(u, sid, cid, sc) ==
    IF users[u] # TEACHER THEN Fail("forbidden")
    ELSE IF sid = "" \/ cid = "" THEN Fail("validation")
    ELSE IF sc = "" THEN Fail("validation")
    ELSE IF ParseFloat(sc).kind = "ValueError" THEN Fail("validation")
    ELSE IF OutOfRange(ParseFloat(sc)) THEN Fail("validation")
    ELSE IF PairOf(enrollments, sid, cid) = {} THEN Fail("notfound")
    ELSE LET new_score == Stored(ParseFloat(sc))
             enrollment == First(PairOf(enrollments, sid, cid))
             es == (enrollments (-) OneRow(enrollment))
                       (+) OneRow([enrollment EXCEPT !.score = new_score])
         IN  Res("ok", <<grade_point(new_score)>>, courses, es,
                 UpsertGrade(sid, cid, new_score))

submit_score(u, sid, cid, sc) == Commit("submit_score", SubmitScore(u, sid, cid, sc))

\* the steps of submit_score that can raise after the enrollment's score was
\* assigned: the flush before the Grade lookup, the Grade upsert, the commit
FaultPoints == {"flush", "upsert", "commit"}

\* submit_score whose except branch does not roll back: what was flushed before
\* the step that raised stays
SubmitScoreAtNoRollback(u, sid, cid, sc, fault) ==
    IF SubmitScore(u, sid, cid, sc).code # "ok" \/ fault \notin FaultPoints
    THEN SubmitScore(u, sid, cid, sc)
    ELSE IF fault = "flush"
         THEN Res("error", <<>>, courses, SubmitScore(u, sid, cid, sc).enrollments, grades)
         ELSE Res("error", <<>>, courses, SubmitScore(u, sid, cid, sc).enrollments,
                  SubmitScore(u, sid, cid, sc).grades)

\* submit_score with a step that raises: fault is "none" or the step.  A request
\* that returns before the enrollment's score is assigned never reaches the
\* step; otherwise the except branch rolls the transaction back
SubmitScoreAt(u, sid, cid, sc, fault) ==
    IF SubmitScore(u, sid, cid, sc).code # "ok" \/ fault \notin FaultPoints
    THEN SubmitScore(u, sid, cid, sc)
    ELSE Fail("error")

submit_score_at(u, sid, cid, sc, fault) ==
    Commit("submit_score", SubmitScoreAt(u, sid, cid, sc, fault))

-----------------------------------------------------------------------------
(* Course creation and editing *)

NewCourse(name, credit, owner) ==
    [id |-> NewCourseId, name |-> name, credit |-> credit, teacher_id |-> Some(owner)]

\* teacher blueprint, POST /teacher/course/manage; a NaN credit is stored as NULL,
\* which the NOT NULL column refuses: the commit raises and is rolled back
CourseManage(u, name, credit) ==
    IF users[u] # TEACHER THEN Fail("forbidden")
    ELSE IF name = "" \/ credit = "" THEN Fail("validation")
    ELSE IF ParseFloat(credit).kind = "ValueError" THEN Fail("validation")
    ELSE IF ParseFloat(credit).kind = "nan" THEN Fail("error")
    ELSE IF ParseFloat(credit).v < 0 THEN Fail("validation")
    ELSE Res("ok", <<>>, courses \cup {NewCourse(name, ParseFloat(credit).v, u)},
             enrollments, grades)

course_manage(u, name, credit) ==
    /\ NewCourseId \in CourseIds
    /\ Commit("course_manage", CourseManage(u, name, credit))

\* CourseForm.validate_on_submit(): DataRequired name, FloatField credit with
\* DataRequired and NumberRange(min=0.5, max=10)
CourseFormValid(name, credit) ==
    /\ name # ""
    /\ ParseFloat(credit).kind = "num"
    /\ ParseFloat(credit).v # 0
    /\ ParseFloat(credit).v >= CREDIT_MIN
    /\ ParseFloat(credit).v <= CREDIT_MAX

\* admin blueprint, POST /admin/course/add
AddCourse(u, name, credit) ==
    IF users[u] < TEACHER THEN Fail("forbidden")
    ELSE IF ~CourseFormValid(name, credit) THEN Fail("validation")
    ELSE Res("ok", <<>>, courses \cup {NewCourse(name, ParseFloat(credit).v, u)},
             enrollments, grades)

add_course(u, name, credit) ==
    /\ NewCourseId \in CourseIds
    /\ Commit("add_course", AddCourse(u, name, credit))

\* edit_course open to teachers as add_course is
EditCourseByStaff(u, cid, name, credit, tid) ==
    IF users[u] < TEACHER THEN Fail("forbidden")
    ELSE IF ~CourseExists(cid) THEN Fail("notfound")
    ELSE IF name = "" \/ credit = "" THEN Fail("validation")
    ELSE IF ParseFloat(credit).kind = "ValueError" THEN Fail("validation")
    ELSE IF ParseFloat(credit).kind = "nan" THEN Fail("error")
    ELSE IF ParseFloat(credit).v < CREDIT_MIN \/ ParseFloat(credit).v > CREDIT_MAX
         THEN Fail("validation")
    ELSE IF tid # "" /\ tid # "0" /\ ~IsInt(tid) THEN Fail("validation")
    ELSE LET course == CourseById(cid)
             owner == IF tid # "" /\ tid # "0"
                      THEN IF ParseInt(tid) \in UserIds THEN Some(ParseInt(tid))
                           ELSE course.teacher_id
                      ELSE None
             edited == [course EXCEPT !.name = name, !.credit = ParseFloat(credit).v,
                                      !.teacher_id = owner]
         IN  Res("ok", <<>>, (courses \ {course}) \cup {edited}, enrollments, grades)

\* admin blueprint, POST /admin/course/edit/<course_id>
EditCourse(u, cid, name, credit, tid) ==
    IF users[u] # ADMIN THEN Fail("forbidden")
    ELSE IF ~CourseExists(cid) THEN Fail("notfound")
    ELSE IF name = "" \/ credit = "" THEN Fail("validation")
    ELSE IF ParseFloat(credit).kind = "ValueError" THEN Fail("validation")
    ELSE IF ParseFloat(credit).kind = "nan" THEN Fail("error")
    ELSE IF ParseFloat(credit).v < CREDIT_MIN \/ ParseFloat(credit).v > CREDIT_MAX
         THEN Fail("validation")
    ELSE IF tid # "" /\ tid # "0" /\ ~IsInt(tid) THEN Fail("validation")
    ELSE LET course == CourseById(cid)
             owner == IF tid # "" /\ tid # "0"
                      THEN IF ParseInt(tid) \in UserIds THEN Some(ParseInt(tid))
                           ELSE course.teacher_id
                      ELSE None
             edited == [course EXCEPT !.name = name, !.credit = ParseFloat(credit).v,
                                      !.teacher_id = owner]
         IN  Res("ok", <<>>, (courses \ {course}) \cup {edited}, enrollments, grades)

edit_course(u, cid, name, credit, tid) ==
    Commit("edit_course", EditCourse(u, cid, name, credit, tid))

-----------------------------------------------------------------------------
(* Course deletion *)

\* db.session.delete(course); db.session.commit().  Course.enrollments cascades
\* the delete to the course's enrollments.  Course.grades has no delete cascade:
\* the flush sets grade.course_id of the course's grade rows to NULL, the column
\* is NOT NULL, the commit raises IntegrityError and the handler rolls back.
DeleteCourseRow(course) ==
    IF OfCourse(grades, course.id) # {} THEN Fail("error")
    ELSE Res("ok", <<>>, courses \ {course}, WithoutCourse(enrollments, course.id), grades)

\* teacher blueprint, POST /teacher/course/delete
TeacherDeleteCourse(u, cid) ==
    IF users[u] # TEACHER THEN Fail("forbidden")
    ELSE IF cid = "" THEN Fail("validation")
    ELSE IF ~(IsInt(cid) /\ CourseExists(ParseInt(cid))) THEN Fail("notfound")
    ELSE IF CourseById(ParseInt(cid)).teacher_id # Some(u) THEN Fail("forbidden")
    ELSE DeleteCourseRow(CourseById(ParseInt(cid)))

teacher_delete_course(u, cid) ==
    Commit("teacher_delete_course", TeacherDeleteCourse(u, cid))

\* admin blueprint, POST /admin/course/delete/<course_id>
AdminDeleteCourse(u, cid) ==
    IF users[u] # ADMIN THEN Fail("forbidden")
    ELSE IF ~CourseExists(cid) THEN Fail("notfound")
    ELSE DeleteCourseRow(CourseById(cid))

admin_delete_course(u, cid) ==
    Commit("admin_delete_course", AdminDeleteCourse(u, cid))

\* course blueprint, GET /api/course/delete/<course_id>: Course has no user_id
\* column, so reading course.user_id raises AttributeError for every course found
CourseDeleteCourse(u, cid) ==
    IF users[u] # STUDENT THEN Fail("forbidden")
    ELSE IF ~CourseExists(cid) THEN Fail("notfound")
    ELSE Fail("error")

course_delete_course(u, cid) ==
    Commit("course_delete_course", CourseDeleteCourse(u, cid))

-----------------------------------------------------------------------------
(* student_index: the GPA of the dashboard *)

RECURSIVE GpaLoopAll(_, _, _, _)
\* the loop with the credits of the ungraded enrollments in the denominator
GpaLoopAll(B, total_credits, total_points, err) ==
    IF B = EmptyBag THEN [credits |-> total_credits, points |-> total_points, err |-> err]
    ELSE LET en == First(Rows(B))
             rest == B (-) OneRow(en)
         IN  IF ~CourseExists(en.course_id)
             THEN GpaLoopAll(rest, total_credits, total_points, en.score # None \/ err)
             ELSE GpaLoopAll(rest,
                      total_credits + CourseById(en.course_id).credit,
                      total_points + grade_point(en.score) * CourseById(en.course_id).credit,
                      err)

RECURSIVE GpaLoop(_, _, _, _)
\* the loop over the student's enrollments: B is the bag still to visit
GpaLoop(B, total_credits, total_points, err) ==
    IF B = EmptyBag THEN [credits |-> total_credits, points |-> total_points, err |-> err]
    ELSE LET en == First(Rows(B))
             rest == B (-) OneRow(en)
         IN  IF en.score # None
             THEN IF ~CourseExists(en.course_id)
                  THEN GpaLoop(rest, total_credits, total_points, TRUE)
                  ELSE GpaLoop(rest,
                           total_credits + CourseById(en.course_id).credit,
                           total_points + grade_point(en.score) * CourseById(en.course_id).credit,
                           err)
             ELSE GpaLoop(rest, total_credits, total_points, err)

\* the enrollment rows of student u, with their multiplicities
EnrollmentsOf(u) == [r \in OfStudent(enrollments, u) |-> enrollments[r]]

\* val is the GPA as the fraction <<total_points, total_credits>>, <<0, 1>> for 0;
\* en.course is None for an enrollment whose course row is missing, and reading
\* its credit raises AttributeError
StudentIndex(u) ==
    IF users[u] # STUDENT THEN Fail("forbidden")
    ELSE LET l == GpaLoop(EnrollmentsOf(u), 0, 0, FALSE)
         IN  IF l.err THEN Fail("error")
             ELSE IF l.credits > 0
                  THEN Res("ok", <<l.points, l.credits>>, courses, enrollments, grades)
                  ELSE Res("ok", <<0, 1>>, courses, enrollments, grades)

student_index(u) == Commit("student_index", StudentIndex(u))

\* a read of Enrollment.grade_point
grade_point_of(en) ==
    /\ resp' = [op |-> "grade_point", code |-> "ok", val |-> <<grade_point(en.score)>>]
    /\ UNCHANGED <<users, usernames, courses, enrollments, grades, skills, certificates,
                   notifications, files, inflight>>

-----------------------------------------------------------------------------
(* score_manage: the teacher's list of scores *)

\* what the list shows in place of a score
NOT_GRADED == [graded |-> FALSE, score |-> 0]

\* en.score if en.score else NOT_GRADED: None and 0.0 are both false
ScoreShown(score) ==
    IF score # None /\ score[1] # 0 THEN [graded |-> TRUE, score |-> score[1]]
    ELSE NOT_GRADED

\* the entry of the list for enrollment en
ScoreEntry(en) ==
    [course_id |-> en.course_id, student_id |-> en.student_id, score |-> ScoreShown(en.score)]

\* teacher blueprint, GET /teacher/score/manage: the enrollments of the caller's
\* courses whose student exists
ScoreManage(u) ==
    IF users[u] # TEACHER THEN Fail("forbidden")
    ELSE LET teacher_courses == {c \in courses : c.teacher_id = Some(u)}
             score_data == {ScoreEntry(en) : en \in
                               {e \in Rows(enrollments) :
                                   /\ \E c \in teacher_courses : e.course_id = c.id
                                   /\ e.student_id \in UserIds}}
         IN  Res("ok", score_data, courses, enrollments, grades)

score_manage(u) == Commit("score_manage", ScoreManage(u))

-----------------------------------------------------------------------------
(* The score-update endpoints of the student *)

\* int(s) for the strings of digits the requests of the model carry
DigitLit == ("0" :> 0) @@ ("90" :> 90) @@ ("100" :> 100) @@ ("101" :> 101)
\* s.isdigit()
IsDigit(s) == s \in DOMAIN DigitLit

\* User.selected_courses: the courses of the user's enrollments
SelectedCourses(u) ==
    {c \in courses : \E en \in OfStudent(enrollments, u) : en.course_id = c.id}

\* update_course_score that stores the score in the student's enrollment
UpdateCourseScoreWrites(u, cid, score) ==
    IF users[u] # STUDENT THEN Fail("forbidden")
    ELSE IF score = "" \/ ~IsDigit(score) \/ ~(0 <= DigitLit[score] /\ DigitLit[score] <= 100)
    THEN Fail("validation")
    ELSE IF CourseExists(cid) /\ CourseById(cid) \in SelectedCourses(u)
    THEN LET en == First(OfPair(enrollments, u, cid))
         IN  Res("ok", <<>>, courses,
                 (enrollments (-) OneRow(en))
                     (+) OneRow([en EXCEPT !.score = Some(DigitLit[score] * 10)]),
                 grades)
    ELSE Fail("notfound")

\* student blueprint, POST /student/course/update-score/<course_id>: the
\* assignment of the score is commented out, the commit has nothing to write
UpdateCourseScore(u, cid, score) ==
    IF users[u] # STUDENT THEN Fail("forbidden")
    ELSE IF score = "" \/ ~IsDigit(score) \/ ~(0 <= DigitLit[score] /\ DigitLit[score] <= 100)
    THEN Fail("validation")
    ELSE IF CourseExists(cid) /\ CourseById(cid) \in SelectedCourses(u)
    THEN Res("ok", <<>>, courses, enrollments, grades)
    ELSE Fail("notfound")

update_course_score(u, cid, score) ==
    Commit("update_course_score", UpdateCourseScore(u, cid, score))

\* course blueprint, POST /api/course/update_score: float() of a string that is
\* no number raises; Course has no user_id column, so reading course.user_id
\* raises AttributeError for every course found, before course.score is assigned
UpdateScore(u, cid, score) ==
    IF users[u] # STUDENT THEN Fail("forbidden")
    ELSE IF ParseFloat(score).kind = "ValueError" THEN Fail("error")
    ELSE IF ~CourseExists(cid) THEN Fail("notfound")
    ELSE Fail("error")

update_score(u, cid, score) == Commit("update_score", UpdateScore(u, cid, score))

-----------------------------------------------------------------------------
(* register and add_user *)

\* the principal of a request made without a login
Anonymous == 0

\* len(s) of the usernames and passwords the requests of the model carry
StrLen ==
    ("" :> 0) @@ ("al" :> 2) @@ ("abc" :> 3) @@ ("bob1" :> 4) @@ ("carol" :> 5) @@
    ("student" :> 7) @@ ("secret1" :> 7)

\* User.query.filter_by(username=username).first()
UsernameTaken(username) == \E id \in UserIds : usernames[id] = username

\* the integer primary key SQLite hands to a new user row
NewUserId == (CHOOSE m \in UserIds : \A id \in UserIds : id <= m) + 1

\* the result of a user handler: its outcome and the user table it commits
UserRes(code, us, ns) == [code |-> code, users |-> us, usernames |-> ns]
UserFail(code) == UserRes(code, users, usernames)

CommitUsers(op, r) ==
    /\ users' = r.users
    /\ usernames' = r.usernames
    /\ resp' = [op |-> op, code |-> r.code, val |-> <<>>]
    /\ UNCHANGED <<courses, enrollments, grades, skills, certificates, notifications, files, inflight>>

\* register that takes the role from the form
RegisterAsTeacher(p, username, password) ==
    IF p # Anonymous THEN UserFail("redirect")
    ELSE IF username = "" \/ password = "" THEN UserFail("validation")
    ELSE IF UsernameTaken(username) THEN UserFail("validation")
    ELSE UserRes("ok", users @@ (NewUserId :> TEACHER), usernames @@ (NewUserId :> username))

\* auth blueprint, POST /register; p is the logged-in user or Anonymous
Register(p, username, password) ==
    IF p # Anonymous THEN UserFail("redirect")
    ELSE IF username = "" \/ password = "" THEN UserFail("validation")
    ELSE IF UsernameTaken(username) THEN UserFail("validation")
    ELSE UserRes("ok", users @@ (NewUserId :> STUDENT), usernames @@ (NewUserId :> username))

register(p, username, password) ==
    /\ Cardinality(DOMAIN Register(p, username, password).users) <= MaxUsers
    /\ CommitUsers("register", Register(p, username, password))

\* UserForm.validate_on_submit(): username of 4..50 characters that no user
\* has, password of at least 6 characters equal to confirm_password, role one of
\* the choices 0, 1, 2
UserFormValid(username, password, confirm, role) ==
    /\ username # "" /\ StrLen[username] >= 4 /\ StrLen[username] <= 50
    /\ ~UsernameTaken(username)
    /\ password # "" /\ StrLen[password] >= 6 /\ password = confirm
    /\ confirm # ""
    /\ role \in {"0", "1", "2"}

\* admin blueprint, POST /admin/user/add
AddUser(u, username, password, confirm, role) ==
    IF users[u] # ADMIN THEN UserFail("forbidden")
    ELSE IF ~UserFormValid(username, password, confirm, role) THEN UserFail("validation")
    ELSE UserRes("ok", users @@ (NewUserId :> ParseInt(role)),
                 usernames @@ (NewUserId :> username))

add_user(u, username, password, confirm, role) ==
    /\ Cardinality(DOMAIN AddUser(u, username, password, confirm, role).users) <= MaxUsers
    /\ CommitUsers("add_user", AddUser(u, username, password, confirm, role))

-----------------------------------------------------------------------------
(* Skills *)

SkillExists(id, u) == \E sk \in skills : sk.id = id /\ sk.user_id = u
\* Skill.query.filter_by(id=id, user_id=u).first()
SkillById(id, u) == CHOOSE sk \in skills : sk.id = id /\ sk.user_id = u

\* the integer primary key SQLite hands to a new skill row
NewSkillId ==
    IF skills = {} THEN 1
    ELSE (CHOOSE m \in {sk.id : sk \in skills} : \A sk \in skills : sk.id <= m) + 1

NewSkill(u, name, current_level, target_level) ==
    [id |-> NewSkillId, name |-> name, current_level |-> current_level,
     target_level |-> target_level, user_id |-> u]

\* not (1 <= level <= 5)
LevelOutOfRange(level) == level < LEVEL_MIN \/ level > LEVEL_MAX

\* the result of a skill handler: its outcome and the skill table it commits
SkillRes(code, sk) == [code |-> code, skills |-> sk]
SkillFail(code) == SkillRes(code, skills)

CommitSkills(op, r) ==
    /\ skills' = r.skills
    /\ resp' = [op |-> op, code |-> r.code, val |-> <<>>]
    /\ UNCHANGED <<users, usernames, courses, enrollments, grades, certificates,
                   notifications, files, inflight>>

\* student blueprint, POST /student/skill/add
StudentAddSkill(u, name, cur, tgt) ==
    IF users[u] # STUDENT THEN SkillFail("forbidden")
    ELSE IF name = "" \/ cur = "" \/ tgt = "" THEN SkillFail("validation")
    ELSE IF ~IsInt(cur) \/ ~IsInt(tgt) THEN SkillFail("validation")
    ELSE IF LevelOutOfRange(ParseInt(cur)) \/ LevelOutOfRange(ParseInt(tgt))
         THEN SkillFail("validation")
    ELSE SkillRes("ok", skills \cup {NewSkill(u, name, ParseInt(cur), ParseInt(tgt))})

student_add_skill(u, name, cur, tgt) ==
    /\ NewSkillId <= MaxSkills
    /\ CommitSkills("student_add_skill", StudentAddSkill(u, name, cur, tgt))

\* current_level or 1
OrOne(cur) == IF cur = "" THEN "1" ELSE cur

\* skill blueprint, POST /api/skill/add
SkillAddSkill(u, name, cur, tgt) ==
    IF users[u] # STUDENT THEN SkillFail("forbidden")
    ELSE IF name = "" \/ tgt = "" THEN SkillFail("validation")
    ELSE IF ~IsInt(OrOne(cur)) \/ ~IsInt(tgt) THEN SkillFail("validation")
    ELSE IF LevelOutOfRange(ParseInt(OrOne(cur))) \/ LevelOutOfRange(ParseInt(tgt))
         THEN SkillFail("validation")
    ELSE IF \E sk \in skills : sk.name = name /\ sk.user_id = u THEN SkillFail("exists")
    ELSE SkillRes("ok", skills \cup {NewSkill(u, name, ParseInt(OrOne(cur)), ParseInt(tgt))})

skill_add_skill(u, name, cur, tgt) ==
    /\ NewSkillId <= MaxSkills
    /\ CommitSkills("skill_add_skill", SkillAddSkill(u, name, cur, tgt))

\* the skill row with the values of an edit form
Edited(skill, name, cur, tgt) ==
    [skill EXCEPT !.name = name, !.current_level = ParseInt(cur),
                  !.target_level = ParseInt(tgt)]

\* student blueprint, POST /student/skill/edit/<skill_id>
StudentEditSkill(u, id, name, cur, tgt) ==
    IF users[u] # STUDENT THEN SkillFail("forbidden")
    ELSE IF ~SkillExists(id, u) THEN SkillFail("notfound")
    ELSE IF name = "" THEN SkillFail("validation")
    ELSE IF ~IsInt(cur) \/ ~IsInt(tgt) THEN SkillFail("validation")
    ELSE SkillRes("ok", (skills \ {SkillById(id, u)})
                            \cup {Edited(SkillById(id, u), name, cur, tgt)})

student_edit_skill(u, id, name, cur, tgt) ==
    CommitSkills("student_edit_skill", StudentEditSkill(u, id, name, cur, tgt))

\* skill blueprint, POST /student/skill/edit/<id>, the URL of the student
\* blueprint's edit_skill; int() of a level that is no integer raises ValueError
\* out of the handler, before the commit
SkillEditSkill(u, id, name, cur, tgt) ==
    IF users[u] # STUDENT THEN SkillFail("forbidden")
    ELSE IF ~SkillExists(id, u) THEN SkillFail("notfound")
    ELSE IF name = "" \/ cur = "" \/ tgt = "" THEN SkillFail("validation")
    ELSE IF \E sk \in skills : sk.name = name /\ sk.user_id = u /\ sk.id # id
         THEN SkillFail("exists")
    ELSE IF ~IsInt(cur) \/ ~IsInt(tgt) THEN SkillFail("error")
    ELSE SkillRes("ok", (skills \ {SkillById(id, u)})
                            \cup {Edited(SkillById(id, u), name, cur, tgt)})

skill_edit_skill(u, id, name, cur, tgt) ==
    CommitSkills("skill_edit_skill", SkillEditSkill(u, id, name, cur, tgt))

\* student blueprint, /student/skill/delete/<skill_id>
StudentDeleteSkill(u, id) ==
    IF users[u] # STUDENT THEN SkillFail("forbidden")
    ELSE IF ~SkillExists(id, u) THEN SkillFail("notfound")
    ELSE SkillRes("ok", skills \ {SkillById(id, u)})

student_delete_skill(u, id) ==
    CommitSkills("student_delete_skill", StudentDeleteSkill(u, id))

-----------------------------------------------------------------------------
(* Certificates and their notifications *)

\* the extension of the file names the requests of the model carry
FileExt == ("a.pdf" :> "pdf") @@ ("a.exe" :> "exe") @@ ("README" :> "")
ALLOWED_EXTENSIONS == {"png", "jpg", "jpeg", "gif", "pdf", "doc", "docx"}
allowed_file(filename) == FileExt[filename] \in ALLOWED_EXTENSIONS

CertExists(id) == \E c \in certificates : c.id = id
CertById(id) == CHOOSE c \in certificates : c.id = id

\* the integer primary keys SQLite hands to new rows
NewCertId ==
    IF certificates = {} THEN 1
    ELSE (CHOOSE m \in {c.id : c \in certificates} : \A c \in certificates : c.id <= m) + 1
NewNoteId(ns) ==
    IF ns = {} THEN 1
    ELSE (CHOOSE m \in {n.id : n \in ns} : \A n \in ns : n.id <= m) + 1

\* User.query.filter_by(role=2).all()
AdminUsers == {id \in UserIds : users[id] = ADMIN}

RECURSIVE NotifyAll(_, _, _)
\* the loop over admin_users: one notification from sender to every recipient
NotifyAll(sender, recipients, ns) ==
    IF recipients = {} THEN ns
    ELSE LET admin == CHOOSE id \in recipients : \A other \in recipients : id <= other
         IN  NotifyAll(sender, recipients \ {admin},
                 ns \cup {[id |-> NewNoteId(ns), sender_id |-> sender, recipient_id |-> admin]})

\* the result of a certificate handler: its outcome and the tables it commits
CertRes(code, cs, ns) == [code |-> code, certificates |-> cs, notifications |-> ns]
CertFail(code) == CertRes(code, certificates, notifications)

CommitCerts(op, r) ==
    /\ Cardinality(r.certificates) <= MaxCerts
    /\ Cardinality(r.notifications) <= MaxNotes
    /\ certificates' = r.certificates
    /\ notifications' = r.notifications
    /\ resp' = [op |-> op, code |-> r.code, val |-> <<>>]
    /\ UNCHANGED <<users, usernames, courses, enrollments, grades, skills, files, inflight>>

\* student blueprint, POST /student/certificate/upload.  fault: creating a
\* notification raises; the except branch rolls the transaction back, the
\* certificate row with it
UploadCertificate(u, filename, fault) ==
    IF filename = "" THEN CertFail("validation")
    ELSE IF ~allowed_file(filename) THEN CertFail("validation")
    ELSE LET new_certificate == [id |-> NewCertId, user_id |-> u, status |-> PENDING]
         IN  IF fault /\ AdminUsers # {} THEN CertFail("error")
             ELSE CertRes("ok", certificates \cup {new_certificate},
                          NotifyAll(u, AdminUsers, notifications))

upload_certificate(u, filename, fault) ==
    CommitCerts("upload_certificate", UploadCertificate(u, filename, fault))

\* admin blueprint, POST /admin/certificate/approve/<cert_id>.  fault: creating
\* the notification raises; the exception leaves the handler before the commit,
\* and the new status is discarded with the session
ApproveCertificate(u, cert_id, fault) ==
    IF users[u] < ADMIN THEN CertFail("forbidden")
    ELSE IF ~CertExists(cert_id) THEN CertFail("notfound")
    ELSE LET cert == CertById(cert_id)
             notice == [id |-> NewNoteId(notifications), sender_id |-> u,
                        recipient_id |-> cert.user_id]
         IN  IF fault THEN CertFail("error")
             ELSE CertRes("ok",
                          (certificates \ {cert}) \cup {[cert EXCEPT !.status = APPROVED]},
                          notifications \cup {notice})

approve_certificate(u, cert_id, fault) ==
    CommitCerts("approve_certificate", ApproveCertificate(u, cert_id, fault))

\* the steps of upload_certificate that can raise: creating the upload folder,
\* saving the file, the flush of the certificate row, creating a notification,
\* the commit
UploadFaults == {"makedirs", "save", "flush", "notify", "commit"}

\* unique_filename: the user id, datetime.now() to the second, the file name
UniqueFilename(u, t, filename) == <<u, t, filename>>

\* the result of upload_certificate: its outcome, the tables it commits and
\* the upload folder it leaves
UploadRes(code, val, cs, ns, fs) ==
    [code |-> code, val |-> val, certificates |-> cs, notifications |-> ns, files |-> fs]

CommitUpload(op, r) ==
    /\ Cardinality(r.certificates) <= MaxCerts
    /\ Cardinality(r.notifications) <= MaxNotes
    /\ certificates' = r.certificates
    /\ notifications' = r.notifications
    /\ files' = r.files
    /\ resp' = [op |-> op, code |-> r.code, val |-> r.val]
    /\ UNCHANGED <<users, usernames, courses, enrollments, grades, skills, inflight>>

\* upload_certificate whose except branch rolls back but leaves the saved file
UploadCertificateKeepFile(u, filename, t, fault) ==
    IF filename = "" \/ ~allowed_file(filename)
    THEN UploadRes("validation", <<>>, certificates, notifications, files)
    ELSE LET unique_filename == UniqueFilename(u, t, filename)
             new_certificate == [id |-> NewCertId, user_id |-> u, status |-> PENDING]
         IN  IF fault = "makedirs"
             THEN UploadRes("error", <<>>, certificates, notifications, files)
             ELSE IF fault = "save"
                  THEN UploadRes("error", unique_filename, certificates, notifications, files)
             ELSE IF fault \in {"flush", "commit"} \/ (fault = "notify" /\ AdminUsers # {})
                  THEN UploadRes("error", unique_filename, certificates, notifications,
                                 files \cup {unique_filename})
                  ELSE UploadRes("ok", unique_filename, certificates \cup {new_certificate},
                                 NotifyAll(u, AdminUsers, notifications),
                                 files \cup {unique_filename})

\* student blueprint, POST /student/certificate/upload, with the upload folder.
\* t is the second datetime.now() falls on, fault is "none" or the step that
\* raises.  save_path is None until the folder exists; from then on the except
\* branch rolls back and removes the file at save_path if there is one
UploadCertificateAt(u, filename, t, fault) ==
    IF filename = "" \/ ~allowed_file(filename)
    THEN UploadRes("validation", <<>>, certificates, notifications, files)
    ELSE LET unique_filename == UniqueFilename(u, t, filename)
             new_certificate == [id |-> NewCertId, user_id |-> u, status |-> PENDING]
         IN  IF fault = "makedirs"
             THEN UploadRes("error", <<>>, certificates, notifications, files)
             ELSE IF fault \in {"save", "flush", "commit"}
                        \/ (fault = "notify" /\ AdminUsers # {})
                  THEN UploadRes("error", unique_filename, certificates, notifications,
                                 files \ {unique_filename})
                  ELSE UploadRes("ok", unique_filename, certificates \cup {new_certificate},
                                 NotifyAll(u, AdminUsers, notifications),
                                 files \cup {unique_filename})

upload_certificate_at(u, filename, t, fault) ==
    CommitUpload("upload_certificate", UploadCertificateAt(u, filename, t, fault))

-----------------------------------------------------------------------------
(* delete_user *)

\* the sender_id of a notification whose sender was deleted (NULL)
NoSender == 0

\* the result of delete_user: its outcome and the tables it commits
DeleteRes(code, us, ns, cs, es, ss, certs, notes) ==
    [code |-> code, users |-> us, usernames |-> ns, courses |-> cs, enrollments |-> es,
     skills |-> ss, certificates |-> certs, notifications |-> notes]
DeleteFail(code) ==
    DeleteRes(code, users, usernames, courses, enrollments, skills, certificates,
              notifications)

CommitDelete(op, r) ==
    /\ users' = r.users
    /\ usernames' = r.usernames
    /\ courses' = r.courses
    /\ enrollments' = r.enrollments
    /\ skills' = r.skills
    /\ certificates' = r.certificates
    /\ notifications' = r.notifications
    /\ resp' = [op |-> op, code |-> r.code, val |-> <<>>]
    /\ UNCHANGED <<grades, files, inflight>>

\* the rows that keep the flush of db.session.delete(user) from succeeding:
\* User.grades and User.received_notifications have no delete cascade, so the
\* session sets their student_id / recipient_id to NULL, which the NOT NULL
\* columns refuse
BlockingRows(user_id) ==
    \/ OfStudent(grades, user_id) # {}
    \/ \E n \in notifications : n.recipient_id = user_id

\* the tables after the flush of db.session.delete(user): the user's skills,
\* enrollments and certificates are deleted, the courses the user owned and the
\* notifications the user sent lose the reference
Deletion(code, user_id) ==
    DeleteRes(code,
        [id \in UserIds \ {user_id} |-> users[id]],
        [id \in UserIds \ {user_id} |-> usernames[id]],
        {IF c.teacher_id = Some(user_id) THEN [c EXCEPT !.teacher_id = None] ELSE c :
            c \in courses},
        [r \in {x \in DOMAIN enrollments : x.student_id # user_id} |-> enrollments[r]],
        {sk \in skills : sk.user_id # user_id},
        {c \in certificates : c.user_id # user_id},
        {IF n.sender_id = user_id THEN [n EXCEPT !.sender_id = NoSender] ELSE n :
            n \in notifications})

\* delete_user without the check of the target's role and of the caller
DeleteUserAnyone(u, user_id) ==
    IF users[u] # ADMIN THEN DeleteFail("forbidden")
    ELSE IF user_id \notin UserIds THEN DeleteFail("notfound")
    ELSE IF BlockingRows(user_id) THEN DeleteFail("error")
    ELSE Deletion("ok", user_id)

\* admin blueprint, POST /admin/user/delete/<user_id>; an exception of the
\* flush is caught and the transaction rolled back
DeleteUser(u, user_id) ==
    IF users[u] # ADMIN THEN DeleteFail("forbidden")
    ELSE IF user_id \notin UserIds THEN DeleteFail("notfound")
    ELSE IF users[user_id] = ADMIN \/ user_id = u THEN DeleteFail("validation")
    ELSE IF BlockingRows(user_id) THEN DeleteFail("error")
    ELSE Deletion("ok", user_id)

delete_user(u, user_id) == CommitDelete("delete_user", DeleteUser(u, user_id))

-----------------------------------------------------------------------------
(* Requests handled at the same time.  The development server runs every    *)
(* request in a thread of its own with a session and a connection of its    *)
(* own.  A SELECT reads the committed tables and the rows its own session   *)
(* has flushed; the first INSERT or UPDATE a session flushes takes the      *)
(* write lock of the SQLite file, which it holds until its commit, and a    *)
(* second writer waits for it.                                              *)

Workers == 1..MaxWorkers
Idle == [op |-> "idle"]

\* the workers whose session holds the write lock
Writers == {w \in Workers : inflight[w].op # "idle" /\ inflight[w].flushed}
\* worker w may flush: no other session holds the write lock
MayWrite(w) == Writers \subseteq {w}

\* a step of a worker: the tables it commits, its next position, its response
Step(w, es, gs, next, response) ==
    /\ enrollments' = es
    /\ grades' = gs
    /\ inflight' = [inflight EXCEPT ![w] = next]
    /\ resp' = response
    /\ UNCHANGED <<users, usernames, courses, skills, certificates, notifications, files>>

\* a step inside a request: nothing is committed and nothing is answered
Inside(w, next) == Step(w, enrollments, grades, next, resp)
\* the last step of a request
Answer(w, es, gs, op, code, val) ==
    Step(w, es, gs, Idle, [op |-> op, code |-> code, val |-> val])

\* select_course, lines 158-167: the role check, the empty list, count = 0
SelectBegin(w, u, ids) ==
    /\ inflight[w] = Idle
    /\ IF users[u] # STUDENT
       THEN Answer(w, enrollments, grades, "select_course", "forbidden", <<>>)
       ELSE IF ids = <<>>
       THEN Answer(w, enrollments, grades, "select_course", "validation", <<>>)
       ELSE Inside(w, [op |-> "select_course", u |-> u, ids |-> ids, added |-> EmptyBag,
                       count |-> 0, flushed |-> FALSE])

\* one turn of the loop, lines 168-182: the lookup flushes the rows the session
\* has added (taking the write lock) and reads the committed rows and its own
SelectTurn(w) ==
    /\ inflight[w].op = "select_course"
    /\ inflight[w].ids # <<>>
    /\ inflight[w].added # EmptyBag => MayWrite(w)
    /\ LET q == inflight[w]
           flushed == q.added # EmptyBag
       IN  IF ~IsInt(Head(q.ids))
           THEN Answer(w, enrollments, grades, "select_course", "error", <<>>)
           ELSE LET c == ParseInt(Head(q.ids))
                    existing == OfPair(enrollments (+) q.added, q.u, c)
                IN  IF existing = {}
                    THEN Inside(w, [q EXCEPT !.ids = Tail(q.ids),
                                        !.added = q.added (+) OneRow([student_id |-> q.u,
                                            course_id |-> c, score |-> None]),
                                        !.count = q.count + 1,
                                        !.flushed = flushed])
                    ELSE Inside(w, [q EXCEPT !.ids = Tail(q.ids), !.flushed = flushed])

\* select_course, lines 184-190: the commit of the added rows and the answer
SelectEnd(w) ==
    /\ inflight[w].op = "select_course"
    /\ inflight[w].ids = <<>>
    /\ LET q == inflight[w]
       IN  IF q.count > 0
           THEN /\ MayWrite(w)
                /\ BagCardinality(enrollments (+) q.added) <= MaxRows
                /\ Answer(w, enrollments (+) q.added, grades, "select_course", "ok",
                          <<q.count>>)
           ELSE Answer(w, enrollments, grades, "select_course", "info", <<0>>)

\* drop_course as one step of a worker (one lookup, one delete, one commit)
DropNow(w, u, cid) ==
    /\ inflight[w] = Idle
    /\ MayWrite(w)
    /\ Commit("drop_course", DropCourse(u, cid))

\* select_course as one step of a worker
SelectNow(w, u, ids) ==
    /\ inflight[w] = Idle
    /\ MayWrite(w)
    /\ select_course(u, ids)

\* table B with the score of the pair's row set to new_score
WithScore(B, sid, cid, new_score) ==
    LET row == First(PairOf(B, sid, cid))
    IN  (B (-) OneRow(row)) (+) OneRow([row EXCEPT !.score = new_score])

\* the unit of work writes an attribute only if the value assigned differs from
\* the value loaded; NaN differs from every value
Changed(q, loaded) == q.nan \/ q.new_score # loaded

\* submit_score, lines 208-238: the checks and the lookup of the enrollment,
\* which loads the committed row
SubmitBegin(w, u, sid, cid, sc) ==
    /\ inflight[w] = Idle
    /\ IF SubmitScore(u, sid, cid, sc).code # "ok"
       THEN Answer(w, enrollments, grades, "submit_score",
                   SubmitScore(u, sid, cid, sc).code, <<>>)
       ELSE Inside(w, [op |-> "submit_score", sid |-> sid, cid |-> cid,
                       new_score |-> Stored(ParseFloat(sc)),
                       nan |-> ParseFloat(sc).kind = "nan",
                       loaded |-> First(PairOf(enrollments, sid, cid)).score,
                       pos |-> "enrollment", found |-> FALSE, grade |-> None,
                       flushed |-> FALSE])

\* lines 240-243: enrollment.score = new_score, then the lookup of the Grade
\* row, which first flushes the enrollment if its score changed (taking the
\* write lock) and then loads the committed Grade row of the pair
SubmitLookup(w) ==
    /\ inflight[w].op = "submit_score"
    /\ inflight[w].pos = "enrollment"
    /\ Changed(inflight[w], inflight[w].loaded) => MayWrite(w)
    /\ LET q == inflight[w]
           rows == PairOf(grades, q.sid, q.cid)
       IN  Inside(w, [q EXCEPT !.pos = "grade",
                           !.flushed = Changed(q, q.loaded),
                           !.found = rows # {},
                           !.grade = IF rows # {} THEN First(rows).score ELSE None])

\* lines 244-262: grade.score = new_score or a new Grade row, the commit and
\* the answer with the grade point of the committed enrollment
SubmitEnd(w) ==
    /\ inflight[w].op = "submit_score"
    /\ inflight[w].pos = "grade"
    /\ LET q == inflight[w]
           writes == ~q.found \/ Changed(q, q.grade)
           es == IF q.flushed THEN WithScore(enrollments, q.sid, q.cid, q.new_score)
                 ELSE enrollments
           gs == IF ~q.found
                 THEN grades (+) OneRow([student_id |-> ParseInt(q.sid),
                                         course_id |-> ParseInt(q.cid),
                                         score |-> q.new_score])
                 ELSE IF writes THEN WithScore(grades, q.sid, q.cid, q.new_score)
                 ELSE grades
       IN  /\ q.flushed \/ writes => MayWrite(w)
           /\ Answer(w, es, gs, "submit_score", "ok",
                     <<grade_point(First(PairOf(es, q.sid, q.cid)).score)>>)

-----------------------------------------------------------------------------
(* The state after construction: the accounts app.py creates and two more *)

InitUsers ==
    (1 :> STUDENT) @@ (2 :> STUDENT) @@ (3 :> TEACHER) @@ (4 :> TEACHER) @@ (5 :> ADMIN)

\* the usernames of app.py's accounts and of the two more
InitNames ==
    (1 :> "student") @@ (2 :> "student2") @@ (3 :> "teacher") @@ (4 :> "teacher2") @@
    (5 :> "admin")

NoResp == [op |-> "none", code |-> "none", val |-> <<>>]

\* no skill, certificate, notification or uploaded file yet, no request in flight
InitRest ==
    /\ usernames = InitNames
    /\ skills = {}
    /\ certificates = {}
    /\ notifications = {}
    /\ files = {}
    /\ inflight = [w \in Workers |-> Idle]

Init ==
    /\ users = InitUsers
    /\ InitRest
    /\ courses = {}
    /\ enrollments = EmptyBag
    /\ grades = EmptyBag
    /\ resp = NoResp

-----------------------------------------------------------------------------
(* The requests of the model.  A request is the logged-in user and the form *)
(* values; the sets hold, for every branch of a handler, requests that take it. *)

\* the course_ids lists of select_course
IdLists ==
    UNION {[1..n -> {"1", "2"}] : n \in 0..MaxSel} \cup {<<"abc">>, <<"1", "abc">>}
\* the requests of a teacher or an admin to the student handlers, and of a
\* student or an admin to submit_score
Ungated ==
    [select |-> {3, 5} \X {<<"1">>},
     drop   |-> {3, 5} \X {1},
     submit |-> {<<1, "1", "1", "100">>, <<5, "1", "1", "100">>}]
\* requests <<3, student_id, course_id, score>> of submit_score that name no pair
NoPair ==
    {<<3, "", "1", "100">>, <<3, "1", "", "100">>, <<3, "1", "abc", "100">>,
     <<3, "3", "1", "100">>}

\* Q.select: requests <<u, ids>> of select_course; Q.drop: requests <<u, cid>> of
\* drop_course; Q.submit: requests <<u, student_id, course_id, score>> of submit_score
EnrollNext(Q) ==
    \/ \E q \in Q.select : select_course(q[1], q[2])
    \/ \E q \in Q.drop : drop_course(q[1], q[2])
    \/ \E q \in Q.submit : submit_score(q[1], q[2], q[3], q[4])

\* requests <<u, name, credit>> of course_manage and add_course
CreateRequests ==
    ({3, 4, 5} \X {"Math"} \X {"", "abc", "nan", "-1", "0.4", "3", "10.1"})
        \cup {<<3, "", "3">>, <<1, "Math", "3">>}
\* requests <<u, cid, name, credit, teacher_id>> of edit_course
EditRequests ==
    ({5} \X CourseIds \X ({"Math"} \X {"3"} \X {"0", "3", "4", "9"}))
        \cup ({5} \X CourseIds
                \X {<<"", "3", "0">>, <<"Math", "", "0">>, <<"Math", "abc", "0">>,
                    <<"Math", "0.4", "0">>, <<"Math", "10.1", "0">>, <<"Math", "3", "abc">>,
                    <<"Math", "nan", "0">>})
        \cup {<<3, 1, <<"Math", "3", "0">>>>, <<1, 1, <<"Math", "3", "0">>>>}
\* requests <<u, cid>> of the three delete_course handlers
TeacherDeleteRequests == ({3, 4} \X {"1", "2", "", "abc"}) \cup ({1, 5} \X {"1"})
AdminDeleteRequests == ({5} \X CourseIds) \cup ({1, 3} \X {1})
CourseDeleteRequests == ({1} \X CourseIds) \cup ({3, 5} \X {1})

CourseNext ==
    \/ \E q \in CreateRequests : course_manage(q[1], q[2], q[3])
    \/ \E q \in CreateRequests : add_course(q[1], q[2], q[3])
    \/ \E q \in EditRequests : edit_course(q[1], q[2], q[3][1], q[3][2], q[3][3])
    \/ \E q \in TeacherDeleteRequests : teacher_delete_course(q[1], q[2])
    \/ \E q \in AdminDeleteRequests : admin_delete_course(q[1], q[2])
    \/ \E q \in CourseDeleteRequests : course_delete_course(q[1], q[2])

\* every handler that writes; the enrollment requests are those of student 1
Requests ==
    [select |-> ({1} \X IdLists) \cup Ungated.select,
     drop   |-> ({1} \X CourseIds) \cup Ungated.drop,
     submit |-> ({3} \X {"1"} \X {"1", "2"} \X {"", "100", "100.1"})
                    \cup NoPair \cup Ungated.submit]

Next == EnrollNext(Requests) \/ CourseNext

Spec == Init /\ [][Next]_vars

\* the enrollment handlers, which read no course row: student 1 in both
\* courses, student 2 in course 1, and every kind of score input
ScoreInputs == {"", "abc", "nan", "-0.1", "0", "100", "100.1"}

EnrollPairs == {<<"1", "1">>, <<"1", "2">>, <<"2", "1">>}

EnrollRequests ==
    [select |-> ({1} \X IdLists) \cup ({2} \X {<<"1">>, <<"1", "1">>}) \cup Ungated.select,
     drop   |-> ({1} \X CourseIds) \cup {<<2, 1>>} \cup Ungated.drop,
     submit |-> {<<3, p[1], p[2], sc>> : p \in EnrollPairs, sc \in ScoreInputs}
                    \cup NoPair \cup Ungated.submit]

NextEnroll == EnrollNext(EnrollRequests)

SpecEnroll == Init /\ [][NextEnroll]_vars

-----------------------------------------------------------------------------
(* Enrollment.grade_point on every score of 0..100 in steps of 0.1, and None *)

ScoreRange == {None} \cup {Some(x) : x \in SCORE_MIN..SCORE_MAX}

\* a graded (or ungraded) enrollment with its grade row
GradedRow(s, c, score) ==
    [student_id |-> s, course_id |-> c, score |-> score]
MirrorOf(B) == [r \in {x \in DOMAIN B : x.score # None} |-> B[r]]

InitGP ==
    /\ users = InitUsers
    /\ InitRest
    /\ courses = {[id |-> 1, name |-> "Math", credit |-> 30, teacher_id |-> Some(3)]}
    /\ \E score \in ScoreRange : enrollments = OneRow(GradedRow(1, 1, score))
    /\ grades = MirrorOf(enrollments)
    /\ resp = NoResp

NextGP == \E en \in Rows(enrollments) : grade_point_of(en)

SpecGP == InitGP /\ [][NextGP]_vars

-----------------------------------------------------------------------------
(* student_index on the tables of one or two courses *)

GpaScores == {None, Some(0), Some(599), Some(600), Some(900), Some(1000)}

\* the rows of student s: for every course id none, or one with a score
RowChoices(s, scores) ==
    {B \in SUBSET {GradedRow(s, c, score) : c \in CourseIds, score \in scores} :
        \A c \in CourseIds : Cardinality(OfCourse(SetToBag(B), c)) <= 1}

InitGPA ==
    /\ users = InitUsers
    /\ InitRest
    /\ \E c1 \in {0, 5, 20, 30, 100}, c2 \in {0, 20, 30} :
          courses = {[id |-> 1, name |-> "Math", credit |-> c1, teacher_id |-> Some(3)]}
                    \cup (IF c2 = 0 THEN {}
                          ELSE {[id |-> 2, name |-> "Math", credit |-> c2, teacher_id |-> None]})
    /\ \E B1 \in RowChoices(1, GpaScores), B2 \in RowChoices(2, {None, Some(1000)}) :
          enrollments = SetToBag(B1 \cup B2)
    /\ grades = MirrorOf(enrollments)
    /\ resp = NoResp

NextGPA == \E u \in {1, 2, 3} : student_index(u)

SpecGPA == InitGPA /\ [][NextGPA]_vars

-----------------------------------------------------------------------------
(* The user table: register, add_user and requests of students and teachers *)

\* requests <<p, username, password>> of register
RegisterRequests ==
    ({Anonymous} \X {"", "student", "bob1", "carol", "al"} \X {"", "secret1"})
        \cup {<<1, "bob1", "secret1">>, <<3, "bob1", "secret1">>}
\* requests <<u, username, password, confirm_password, role>> of add_user
AddUserRequests ==
    ({5} \X {"bob1", "carol"} \X {"secret1"} \X {"secret1"} \X {"0", "1", "2", "3"})
        \cup {<<5, "al", "secret1", "secret1", "1">>, <<5, "student", "secret1", "secret1", "1">>,
              <<5, "bob1", "abc", "abc", "1">>, <<5, "bob1", "secret1", "abc", "1">>,
              <<5, "", "secret1", "secret1", "1">>,
              <<1, "bob1", "secret1", "secret1", "2">>, <<3, "bob1", "secret1", "secret1", "2">>}
\* enrollment requests of a student and a teacher
UserSpecRequests ==
    [select |-> {<<1, <<"1">>>>, <<3, <<"1">>>>},
     drop   |-> {<<1, 1>>},
     submit |-> {<<3, "1", "1", "100">>, <<1, "1", "1", "100">>}]

NextUsers ==
    \/ \E q \in RegisterRequests : register(q[1], q[2], q[3])
    \/ \E q \in AddUserRequests : add_user(q[1], q[2], q[3], q[4], q[5])
    \/ EnrollNext(UserSpecRequests)

SpecUsers == Init /\ [][NextUsers]_vars

-----------------------------------------------------------------------------
(* The skill table *)

\* the <<current_level, target_level>> of the add forms and of the edit forms
AddLevels ==
    {<<"1", "5">>, <<"", "5">>, <<"0", "5">>, <<"1", "6">>, <<"abc", "5">>, <<"1", "">>}
EditLevels ==
    {<<"1", "5">>, <<"6", "5">>, <<"1", "0">>, <<"abc", "5">>, <<"", "5">>}
\* requests <<u, name, levels>> of the two add_skill handlers
SkillAddRequests ==
    ({1, 2} \X {"py", "sql"} \X AddLevels)
        \cup {<<1, "", <<"1", "5">>>>, <<3, "py", <<"1", "5">>>>}
\* requests <<u, id, name, levels>> of the two edit_skill handlers
SkillEditRequests ==
    ({1, 2} \X (1..MaxSkills) \X {"py", "sql", ""} \X EditLevels)
        \cup {<<3, 1, "py", <<"1", "5">>>>}
\* requests <<u, id>> of delete_skill
SkillDeleteRequests == ({1, 2} \X (1..MaxSkills)) \cup {<<3, 1>>}

NextSkills ==
    \/ \E q \in SkillAddRequests : student_add_skill(q[1], q[2], q[3][1], q[3][2])
    \/ \E q \in SkillAddRequests : skill_add_skill(q[1], q[2], q[3][1], q[3][2])
    \/ \E q \in SkillEditRequests : student_edit_skill(q[1], q[2], q[3], q[4][1], q[4][2])
    \/ \E q \in SkillEditRequests : skill_edit_skill(q[1], q[2], q[3], q[4][1], q[4][2])
    \/ \E q \in SkillDeleteRequests : student_delete_skill(q[1], q[2])

SpecSkills == Init /\ [][NextSkills]_vars

-----------------------------------------------------------------------------
(* The certificate table *)

\* requests <<u, filename, fault>> of upload_certificate
UploadRequests ==
    ({1, 2} \X {"a.pdf"} \X BOOLEAN) \cup ({1} \X {"", "a.exe", "README"} \X {FALSE})
        \cup {<<3, "a.pdf", FALSE>>}
\* requests <<u, cert_id, fault>> of approve_certificate
ApproveRequests ==
    ({5} \X (1..MaxCerts) \X BOOLEAN) \cup {<<1, 1, FALSE>>, <<3, 1, FALSE>>}

NextCerts ==
    \/ \E q \in UploadRequests : upload_certificate(q[1], q[2], q[3])
    \/ \E q \in ApproveRequests : approve_certificate(q[1], q[2], q[3])

SpecCerts == Init /\ [][NextCerts]_vars

-----------------------------------------------------------------------------
(* submit_score with steps that raise *)

\* requests <<u, student_id, course_id, score, fault>> of submit_score
FaultRequests ==
    ({3} \X {"1"} \X {"1", "2"} \X {"0", "100", "nan", "100.1"}
         \X ({"none"} \cup FaultPoints))
        \cup {<<1, "1", "1", "100", "none">>, <<3, "2", "1", "100", "commit">>}

NextFault ==
    \/ \E q \in ({1} \X IdLists) : select_course(q[1], q[2])
    \/ \E q \in ({1} \X CourseIds) : drop_course(q[1], q[2])
    \/ \E q \in FaultRequests : submit_score_at(q[1], q[2], q[3], q[4], q[5])

SpecFault == Init /\ [][NextFault]_vars

-----------------------------------------------------------------------------
(* upload_certificate with the upload folder *)

\* requests <<u, filename, t, fault>> of upload_certificate
UploadAtRequests ==
    ({1, 2} \X {"a.pdf"} \X (1..MaxTime) \X ({"none"} \cup UploadFaults))
        \cup ({1} \X {"", "a.exe"} \X {1} \X {"none"})

NextUpload ==
    \/ \E q \in UploadAtRequests : upload_certificate_at(q[1], q[2], q[3], q[4])
    \/ \E q \in ApproveRequests : approve_certificate(q[1], q[2], q[3])

SpecUpload == Init /\ [][NextUpload]_vars

-----------------------------------------------------------------------------
(* select_course requests handled at the same time *)

\* the course_ids lists of the requests
RaceIdLists == {<<>>, <<"1">>, <<"2">>, <<"1", "2">>, <<"2", "1">>, <<"1", "1">>, <<"abc">>}

NextSelectRace ==
    \/ \E w \in Workers, u \in {1, 3}, ids \in RaceIdLists : SelectBegin(w, u, ids)
    \/ \E w \in Workers : SelectTurn(w)
    \/ \E w \in Workers : SelectEnd(w)
    \/ \E w \in Workers, cid \in CourseIds : DropNow(w, 1, cid)

SpecSelectRace == Init /\ [][NextSelectRace]_vars

-----------------------------------------------------------------------------
(* The requests of a student that name a score *)

\* requests <<u, course_id, score>> of update_course_score and update_score
UpdateRequests ==
    ({1} \X CourseIds \X {"", "abc", "90", "100", "101"}) \cup {<<3, 1, "90">>}

\* the requests of students to submit_score
StudentSubmits == {<<1, "1", "1", "100">>, <<2, "1", "1", "0">>}

ScoreRequests ==
    [select |-> {1} \X {<<"1">>, <<"2">>, <<"1", "2">>},
     drop   |-> {1} \X CourseIds,
     submit |-> ({3} \X {"1"} \X {"1", "2"} \X {"0", "100"}) \cup StudentSubmits]

NextScores ==
    \/ EnrollNext(ScoreRequests)
    \/ \E u \in {3, 4} : course_manage(u, "Math", "3")
    \/ \E q \in UpdateRequests : update_course_score(q[1], q[2], q[3])
    \/ \E q \in UpdateRequests : update_score(q[1], q[2], q[3])
    \/ \E q \in CourseDeleteRequests : course_delete_course(q[1], q[2])

SpecScores == Init /\ [][NextScores]_vars

-----------------------------------------------------------------------------
(* submit_score requests handled at the same time *)

\* requests <<u, student_id, course_id, score>> of submit_score
RaceSubmits ==
    ({3, 4} \X {"1"} \X {"1", "2"} \X {"0", "100"})
        \cup {<<1, "1", "1", "100">>, <<3, "1", "1", "100.1">>, <<3, "1", "1", "nan">>}

NextSubmitRace ==
    \/ \E w \in Workers, ids \in {<<"1">>, <<"2">>} : SelectNow(w, 1, ids)
    \/ \E w \in Workers, q \in RaceSubmits : SubmitBegin(w, q[1], q[2], q[3], q[4])
    \/ \E w \in Workers : SubmitLookup(w)
    \/ \E w \in Workers : SubmitEnd(w)

SpecSubmitRace == Init /\ [][NextSubmitRace]_vars

-----------------------------------------------------------------------------
(* The two views of the scores *)

NextView ==
    \/ \E u \in {1, 2, 3} : student_index(u)
    \/ \E u \in {1, 3, 4} : score_manage(u)

SpecView == InitGPA /\ [][NextView]_vars

-----------------------------------------------------------------------------
(* The user table with delete_user.  A deleted user makes no request: the   *)
(* login of a request is a row of the user table.                           *)

\* requests <<u, user_id>> of delete_user
DeleteRequests ==
    ({5} \X {1, 2, 3, 5, 6, 9}) \cup {<<6, 5>>, <<6, 6>>, <<1, 2>>, <<3, 1>>}

\* requests <<u, username, password, confirm_password, role>> of add_user
AddAdminRequests ==
    {<<5, "bob1", "secret1", "secret1", "2">>, <<1, "bob1", "secret1", "secret1", "2">>}

NextDelete ==
    \/ \E q \in DeleteRequests : q[1] \in UserIds /\ delete_user(q[1], q[2])
    \/ \E q \in AddAdminRequests :
           q[1] \in UserIds /\ add_user(q[1], q[2], q[3], q[4], q[5])
    \/ \E u \in {1, 2} : u \in UserIds /\ select_course(u, <<"1">>)
    \/ 3 \in UserIds /\ course_manage(3, "Math", "3")
    \/ 4 \in UserIds /\ submit_score(4, "1", "1", "100")
    \/ 1 \in UserIds /\ student_add_skill(1, "py", "1", "5")
    \/ 1 \in UserIds /\ upload_certificate(1, "a.pdf", FALSE)
    \/ approve_certificate(5, 1, FALSE)

SpecDelete == Init /\ [][NextDelete]_vars

-----------------------------------------------------------------------------
(* Properties *)

\* the number of rows of table B for the pair (s, c)
RECURSIVE Copies(_, _)
Copies(B, S) ==
    IF S = {} THEN 0 ELSE LET r == First(S) IN B[r] + Copies(B, S \ {r})
PairCount(B, s, c) == Copies(B, OfPair(B, s, c))

\* C1: for every enrollment with a score in 0..100 or none, grade_point is 0
\* when the score is absent or below 60 and 1.0 + (score - 60) * 0.1 otherwise:
\* 60 gives 1.0, 96 gives 4.6, 59.9 gives 0.0
C1_GradePoint ==
    resp.op = "grade_point" =>
        \A en \in Rows(enrollments) :
            /\ en.score = None => resp.val = <<0>>
            /\ en.score # None /\ en.score[1] < 600 => resp.val = <<0>>
            /\ en.score # None /\ en.score[1] >= 600 =>
                   resp.val = <<100 + (en.score[1] - 600)>>
            /\ en.score = Some(600) => resp.val = <<100>>
            /\ en.score = Some(960) => resp.val = <<460>>
            /\ en.score = Some(599) => resp.val = <<0>>

C1_Witness ==
    /\ resp.op = "grade_point"
    /\ resp.val = <<460>>
    /\ Rows(enrollments) = {GradedRow(1, 1, Some(960))}

\* C2: there is at most one enrollment row for every (student, course) pair
C2_OneEnrollmentPerPair ==
    \A r \in Rows(enrollments) : PairCount(enrollments, r.student_id, r.course_id) = 1

\* a select_course whose courses were all selected before has answered, and the
\* student still has one row for each of the two courses
C2_Witness ==
    /\ resp.op = "select_course"
    /\ resp.code = "info"
    /\ PairCount(enrollments, 1, 1) = 1
    /\ PairCount(enrollments, 1, 2) = 1

\* a score string that is a number within 0..100 inclusive
ValidScore(sc) ==
    sc \in DOMAIN FloatLit /\ FloatLit[sc] >= 0 /\ FloatLit[sc] <= 1000

\* C3: a submit_score request for a pair without an enrollment does not succeed
\* and commits the enrollment and grade tables as they were, so no Grade row
\* appears for the pair; from a teacher with both ids and a score of 0..100
\* its outcome is not-found
C3_NoEnrollmentNotFound ==
    \A q \in EnrollRequests.submit :
        PairOf(enrollments, q[2], q[3]) = {} =>
            LET r == SubmitScore(q[1], q[2], q[3], q[4])
            IN  /\ r.code # "ok"
                /\ r.enrollments = enrollments
                /\ r.grades = grades
                /\ PairOf(grades, q[2], q[3]) = {} => PairOf(r.grades, q[2], q[3]) = {}
                /\ users[q[1]] = TEACHER /\ q[2] # "" /\ q[3] # "" /\ ValidScore(q[4])
                       => r.code = "notfound"

\* submit_score has answered not-found while enrollments and grade rows of other
\* pairs exist
C3_Witness ==
    /\ resp.op = "submit_score"
    /\ resp.code = "notfound"
    /\ enrollments # EmptyBag
    /\ grades # EmptyBag

\* C4: for an enrolled pair submit_score answers a score that is empty, not a
\* number, below 0 or above 100 with a validation outcome and commits the enrollment and grade
\* tables as they were, and the score of every enrollment is absent or within
\* 0..100
C4_ScoreValidated ==
    /\ \A q \in EnrollRequests.submit :
           users[q[1]] = TEACHER /\ PairOf(enrollments, q[2], q[3]) # {}
                   /\ ~ValidScore(q[4]) =>
               LET r == SubmitScore(q[1], q[2], q[3], q[4])
               IN  /\ r.code = "validation"
                   /\ r.enrollments = enrollments
                   /\ r.grades = grades
    /\ \A en \in Rows(enrollments) :
           en.score = None \/ (en.score[1] >= 0 /\ en.score[1] <= 1000)

\* submit_score has accepted the score "nan" for student 1 in course 1: the
\* enrollment and the grade row of the pair hold no score
C4_NaNAccepted ==
    /\ resp = [op |-> "submit_score", code |-> "ok", val |-> <<0>>]
    /\ GradedRow(1, 1, None) \in Rows(enrollments)
    /\ GradedRow(1, 1, None) \in Rows(grades)

\* C5: after a submit_score that succeeds with score s, the enrollment of the
\* pair has score s and the pair has a Grade row with score s: one more Grade
\* row than before when the pair had none, the same number when it had one
C5_ScoreMirrored ==
    \A q \in EnrollRequests.submit :
        LET r == SubmitScore(q[1], q[2], q[3], q[4])
        IN  r.code = "ok" =>
                /\ q[4] \in DOMAIN FloatLit
                /\ PairOf(r.enrollments, q[2], q[3]) # {}
                /\ \A en \in PairOf(r.enrollments, q[2], q[3]) :
                       en.score = Some(FloatLit[q[4]])
                /\ PairOf(r.grades, q[2], q[3]) # {}
                /\ \A g \in PairOf(r.grades, q[2], q[3]) : g.score = Some(FloatLit[q[4]])
                /\ BagCardinality(r.grades) =
                       IF PairOf(grades, q[2], q[3]) = {} THEN BagCardinality(grades) + 1
                       ELSE BagCardinality(grades)

\* submit_score has succeeded for student 1 in course 2 and neither the
\* enrollment nor the grade row of the pair holds a score
C5_NoScoreStored ==
    /\ resp = [op |-> "submit_score", code |-> "ok", val |-> <<0>>]
    /\ GradedRow(1, 2, None) \in Rows(enrollments)
    /\ GradedRow(1, 2, None) \in Rows(grades)

\* C9: drop_course of a student removes the enrollment of that student in that
\* course when there is one and keeps every other enrollment row, those of other
\* students in the course and of the student in other courses, and the grade
\* rows; when there is none it reports not-found and changes nothing
C9_DropExactlyOne ==
    \A q \in EnrollRequests.drop :
        users[q[1]] = STUDENT =>
            LET r == DropCourse(q[1], q[2])
            IN  IF OfPair(enrollments, q[1], q[2]) # {}
                THEN /\ r.code = "ok"
                     /\ OfPair(r.enrollments, q[1], q[2]) = {}
                     /\ BagCardinality(r.enrollments) = BagCardinality(enrollments) - 1
                     /\ \A x \in Rows(enrollments) :
                            ~(x.student_id = q[1] /\ x.course_id = q[2]) =>
                                CopiesIn(x, r.enrollments) = CopiesIn(x, enrollments)
                     /\ Rows(r.enrollments) \subseteq Rows(enrollments)
                     /\ r.grades = grades
                     /\ r.courses = courses
                ELSE /\ r.code = "notfound"
                     /\ r.enrollments = enrollments
                     /\ r.grades = grades
                     /\ r.courses = courses

\* drop_course has removed student 1's enrollment in course 1; student 2's
\* enrollment in course 1 and student 1's enrollment in course 2 are there
C9_Witness ==
    /\ resp.op = "drop_course"
    /\ resp.code = "ok"
    /\ OfPair(enrollments, 1, 1) = {}
    /\ PairCount(enrollments, 2, 1) = 1
    /\ PairCount(enrollments, 1, 2) = 1

\* the enrollment rows of student u that have a score
GradedOf(u) == {en \in OfStudent(enrollments, u) : en.score # None}

\* the credits, and the grade points weighted by credit, of a set of enrollment
\* rows that each occur once
RECURSIVE SumCredits(_)
SumCredits(S) ==
    IF S = {} THEN 0
    ELSE LET en == First(S) IN CourseById(en.course_id).credit + SumCredits(S \ {en})
RECURSIVE SumPoints(_)
SumPoints(S) ==
    IF S = {} THEN 0
    ELSE LET en == First(S)
         IN  grade_point(en.score) * CourseById(en.course_id).credit + SumPoints(S \ {en})

\* C6: the GPA student_index shows, the fraction val[1] / val[2], is the sum of
\* grade_point * credit over the student's enrollments with a score divided by
\* the sum of their credits, and 0 when no enrollment of the student has a
\* score; (credit 3, score 90) with (credit 2, no score) gives 4.0
C6_GpaWeightedAverage ==
    \A u \in {1, 2} :
        LET r == StudentIndex(u)
        IN  r.code = "ok" =>
                /\ r.val[2] > 0
                /\ r.val[1] * SumCredits(GradedOf(u)) = SumPoints(GradedOf(u)) * r.val[2]
                /\ GradedOf(u) = {} => r.val[1] = 0
                /\ (/\ OfStudent(enrollments, u) =
                           {GradedRow(u, 1, Some(900)), GradedRow(u, 2, None)}
                    /\ CourseExists(1) /\ CourseById(1).credit = 30
                    /\ CourseExists(2) /\ CourseById(2).credit = 20)
                       => r.val[1] = 400 * r.val[2]

\* student_index has shown 4.0 to student 1, who has 90 in course 1 of 3
\* credits and no score in course 2 of 2 credits
C6_Witness ==
    /\ resp.op = "student_index"
    /\ resp.code = "ok"
    /\ resp.val = <<12000, 30>>
    /\ OfStudent(enrollments, 1) = {GradedRow(1, 1, Some(900)), GradedRow(1, 2, None)}
    /\ CourseExists(2) /\ CourseById(2).credit = 20

\* the outcome r of a delete of course id: the course is gone and no enrollment
\* and no grade row references it
Deleted(r, id) ==
    /\ r.code = "ok"
    /\ \A c \in r.courses : c.id # id
    /\ OfCourse(r.enrollments, id) = {}
    /\ OfCourse(r.grades, id) = {}

\* C7: a delete_course of an existing course by the teacher who owns it or by
\* an admin removes the course, its enrollments and its grade rows, also when
\* the course has grade rows
C7_DeleteCascades ==
    /\ \A q \in TeacherDeleteRequests :
           (/\ users[q[1]] = TEACHER
            /\ IsInt(q[2]) /\ CourseExists(ParseInt(q[2]))
            /\ CourseById(ParseInt(q[2])).teacher_id = Some(q[1]))
               => Deleted(TeacherDeleteCourse(q[1], q[2]), ParseInt(q[2]))
    /\ \A q \in AdminDeleteRequests :
           users[q[1]] = ADMIN /\ CourseExists(q[2])
               => Deleted(AdminDeleteCourse(q[1], q[2]), q[2])

\* the delete of course 1 by its owner has failed, and the course, its
\* enrollment and its grade row are still there
C7_DeleteFailed ==
    /\ resp.op = "teacher_delete_course"
    /\ resp.code = "error"
    /\ CourseExists(1) /\ CourseById(1).teacher_id \in {Some(3), Some(4)}
    /\ OfCourse(enrollments, 1) # {}
    /\ OfCourse(grades, 1) # {}

\* the outcome r of a delete request that is refused for want of permission
Refused(r) ==
    /\ r.code = "forbidden"
    /\ r.courses = courses
    /\ r.enrollments = enrollments
    /\ r.grades = grades

\* C8: every delete request for an existing course from a student, or from a
\* teacher who does not own the course, is refused with a permission outcome and
\* changes no table, in each of the three delete_course handlers
C8_DeleteRefused ==
    /\ \A q \in TeacherDeleteRequests :
           (/\ IsInt(q[2]) /\ CourseExists(ParseInt(q[2]))
            /\ \/ users[q[1]] = STUDENT
               \/ users[q[1]] = TEACHER
                    /\ CourseById(ParseInt(q[2])).teacher_id # Some(q[1]))
               => Refused(TeacherDeleteCourse(q[1], q[2]))
    /\ \A q \in AdminDeleteRequests :
           CourseExists(q[2]) /\ users[q[1]] # ADMIN
               => Refused(AdminDeleteCourse(q[1], q[2]))
    /\ \A q \in CourseDeleteRequests :
           CourseExists(q[2]) /\ users[q[1]] # ADMIN
               => Refused(CourseDeleteCourse(q[1], q[2]))

\* the course blueprint has answered a student's delete of an existing course
\* with an error, not with a permission outcome
C8_StudentDeleteError ==
    /\ resp.op = "course_delete_course"
    /\ resp.code = "error"
    /\ courses # {}

\* a credit string that is a number within 0.5..10 inclusive
ValidCredit(credit) ==
    credit \in DOMAIN FloatLit /\ FloatLit[credit] >= 5 /\ FloatLit[credit] <= 100

\* C10: the credit of every course is within 0.5..10, and course_manage,
\* add_course and edit_course commit the course table as it was for an empty
\* name or a credit outside 0.5..10
C10_CreditInRange ==
    /\ \A c \in courses : c.credit >= 5 /\ c.credit <= 100
    /\ \A q \in CreateRequests :
           q[2] = "" \/ ~ValidCredit(q[3]) =>
               /\ CourseManage(q[1], q[2], q[3]).courses = courses
               /\ AddCourse(q[1], q[2], q[3]).courses = courses
    /\ \A q \in EditRequests :
           q[3][1] = "" \/ ~ValidCredit(q[3][2]) =>
               EditCourse(q[1], q[2], q[3][1], q[3][2], q[3][3]).courses = courses

\* course_manage has created a course with a credit below 0.5 or above 10
C10_CreditOutOfRange ==
    /\ resp.op = "course_manage"
    /\ resp.code = "ok"
    /\ \E c \in courses : c.credit < CREDIT_MIN \/ c.credit > CREDIT_MAX

\* the outcome r of a request that commits every table as it was
Unchanged(r) ==
    /\ r.courses = courses
    /\ r.enrollments = enrollments
    /\ r.grades = grades

\* C11: select_course and drop_course change no table for a principal who is
\* not a student; submit_score with a score of 0..100 for an enrolled pair
\* succeeds for a teacher and for an admin, and is refused without a change for
\* a student
C11_RoleGating ==
    /\ \A q \in EnrollRequests.select :
           users[q[1]] # STUDENT => Unchanged(SelectCourse(q[1], q[2]))
    /\ \A q \in EnrollRequests.drop :
           users[q[1]] # STUDENT => Unchanged(DropCourse(q[1], q[2]))
    /\ \A q \in EnrollRequests.submit :
           LET r == SubmitScore(q[1], q[2], q[3], q[4])
           IN  /\ (/\ users[q[1]] \in {TEACHER, ADMIN}
                   /\ PairOf(enrollments, q[2], q[3]) # {}
                   /\ ValidScore(q[4])) => r.code = "ok"
               /\ users[q[1]] = STUDENT => r.code = "forbidden" /\ Unchanged(r)

\* C12: select_course, drop_course, the course handlers and a submit_score
\* that does not succeed commit the grade table as it was, so the grade row of
\* a pair is still there after the pair's enrollment was dropped
C12_GradesOnlyBySubmit ==
    /\ \A q \in Requests.select : SelectCourse(q[1], q[2]).grades = grades
    /\ \A q \in Requests.drop : DropCourse(q[1], q[2]).grades = grades
    /\ \A q \in Requests.submit :
           LET r == SubmitScore(q[1], q[2], q[3], q[4])
           IN  r.code # "ok" => r.grades = grades
    /\ \A q \in CreateRequests :
           /\ CourseManage(q[1], q[2], q[3]).grades = grades
           /\ AddCourse(q[1], q[2], q[3]).grades = grades
    /\ \A q \in EditRequests :
           EditCourse(q[1], q[2], q[3][1], q[3][2], q[3][3]).grades = grades
    /\ \A q \in TeacherDeleteRequests : TeacherDeleteCourse(q[1], q[2]).grades = grades
    /\ \A q \in AdminDeleteRequests : AdminDeleteCourse(q[1], q[2]).grades = grades
    /\ \A q \in CourseDeleteRequests : CourseDeleteCourse(q[1], q[2]).grades = grades

\* student 1 has dropped course 1 after it was graded: the enrollment is gone
\* and the grade row is there
C12_Witness ==
    /\ resp.op = "drop_course"
    /\ resp.code = "ok"
    /\ OfPair(enrollments, 1, 1) = {}
    /\ GradedRow(1, 1, Some(1000)) \in Rows(grades)

\* the course ids of the list ids
IdsOf(ids) == {ids[i] : i \in 1..Len(ids)}

\* C13: a select_course that does not fail reports as many new enrollments as
\* it added rows, keeps every row there was and adds rows without a score; when
\* the student is enrolled in every course of the list it reports zero and
\* commits the enrollment table as it was
C13_SelectCount ==
    \A q \in EnrollRequests.select :
        LET r == SelectCourse(q[1], q[2])
        IN  /\ r.code \in {"ok", "info"} =>
                /\ r.val[1] = BagCardinality(r.enrollments) - BagCardinality(enrollments)
                /\ \A x \in Rows(enrollments) :
                       CopiesIn(x, r.enrollments) = CopiesIn(x, enrollments)
                /\ \A x \in Rows(r.enrollments) \ Rows(enrollments) :
                       /\ x.score = None
                       /\ x.student_id = q[1]
                       /\ CopiesIn(x, r.enrollments) = 1
            /\ (/\ users[q[1]] = STUDENT /\ q[2] # <<>>
                /\ \A id \in IdsOf(q[2]) :
                       IsInt(id) /\ OfPair(enrollments, q[1], ParseInt(id)) # {})
                   => r.code = "info" /\ r.val = <<0>> /\ Unchanged(r)

\* select_course has reported zero new enrollments to student 2, who is
\* enrolled in the course of the list
C13_Witness ==
    /\ resp = [op |-> "select_course", code |-> "info", val |-> <<0>>]
    /\ PairCount(enrollments, 2, 1) = 1

\* C14: the grade point of every score submit_score accepts is within 0.0..4.6
C14_GradePointRange ==
    resp.op = "submit_score" /\ resp.code = "ok" =>
        resp.val[1] >= 0 /\ resp.val[1] <= 460

\* the owner of course id in result r differs from the owner it has now
OwnerChanged(r, id) ==
    \E c \in courses, d \in r.courses :
        c.id = id /\ d.id = id /\ d.teacher_id # c.teacher_id

\* C15: no request of a student or a teacher changes the owner of a course; an
\* admin's edit_course with teacher_id 0 leaves the course without an owner and
\* with the enrollments it had; select_course enrolls a student in a course
\* without an owner
C15_OwnerByAdminOnly ==
    /\ \A q \in EditRequests :
           LET r == EditCourse(q[1], q[2], q[3][1], q[3][2], q[3][3])
           IN  /\ OwnerChanged(r, q[2]) => users[q[1]] = ADMIN
               /\ (/\ users[q[1]] = ADMIN /\ CourseExists(q[2])
                   /\ q[3][1] # "" /\ ValidCredit(q[3][2]) /\ q[3][3] = "0")
                      => /\ r.code = "ok"
                         /\ \E d \in r.courses : d.id = q[2] /\ d.teacher_id = None
                         /\ r.enrollments = enrollments
                         /\ r.grades = grades
    /\ \A q \in CreateRequests, id \in CourseIds :
           /\ ~OwnerChanged(CourseManage(q[1], q[2], q[3]), id)
           /\ ~OwnerChanged(AddCourse(q[1], q[2], q[3]), id)
    /\ \A id \in CourseIds :
           /\ \A q \in TeacherDeleteRequests : ~OwnerChanged(TeacherDeleteCourse(q[1], q[2]), id)
           /\ \A q \in AdminDeleteRequests : ~OwnerChanged(AdminDeleteCourse(q[1], q[2]), id)
           /\ \A q \in CourseDeleteRequests : ~OwnerChanged(CourseDeleteCourse(q[1], q[2]), id)
           /\ \A q \in Requests.select : ~OwnerChanged(SelectCourse(q[1], q[2]), id)
           /\ \A q \in Requests.drop : ~OwnerChanged(DropCourse(q[1], q[2]), id)
           /\ \A q \in Requests.submit :
                  ~OwnerChanged(SubmitScore(q[1], q[2], q[3], q[4]), id)
    /\ \A c \in courses, q \in Requests.select :
           (/\ c.teacher_id = None
            /\ users[q[1]] = STUDENT
            /\ q[2] # <<>> /\ \A id \in IdsOf(q[2]) : IsInt(id) /\ ParseInt(id) = c.id
            /\ OfPair(enrollments, q[1], c.id) = {})
               => LET r == SelectCourse(q[1], q[2])
                  IN  r.code = "ok" /\ PairCount(r.enrollments, q[1], c.id) = 1

\* the admin's edit_course has left course 1, in which student 1 is enrolled,
\* without an owner
C15_Witness ==
    /\ resp.op = "edit_course"
    /\ resp.code = "ok"
    /\ CourseExists(1) /\ CourseById(1).teacher_id = None
    /\ OfPair(enrollments, 1, 1) # {}

\* the users of table us that table old does not have
NewUsers(us, old) == DOMAIN us \ DOMAIN old

\* C16: no step changes the role of a user; register adds only users with the
\* role student, for whichever principal; add_user changes the user table only
\* for an admin, and a user who is not a student comes only from add_user
C16_RoleImmutable ==
    /\ [](/\ \A q \in RegisterRequests :
                LET r == Register(q[1], q[2], q[3])
                IN  /\ \A id \in DOMAIN users : id \in DOMAIN r.users /\ r.users[id] = users[id]
                    /\ \A id \in NewUsers(r.users, users) : r.users[id] = STUDENT
          /\ \A q \in AddUserRequests :
                LET r == AddUser(q[1], q[2], q[3], q[4], q[5])
                IN  /\ \A id \in DOMAIN users : id \in DOMAIN r.users /\ r.users[id] = users[id]
                    /\ r.users # users => users[q[1]] = ADMIN)
    /\ [][/\ \A id \in DOMAIN users : id \in DOMAIN users' /\ users'[id] = users[id]
          /\ \A id \in NewUsers(users', users) :
                 users'[id] # STUDENT => resp'.op = "add_user"]_vars

\* register has added a student while add_user had added a teacher
C16_Witness ==
    /\ resp.op = "register"
    /\ resp.code = "ok"
    /\ \E id \in NewUsers(users, InitUsers) : users[id] = STUDENT
    /\ \E id \in NewUsers(users, InitUsers) : users[id] = TEACHER

\* a level string that is an integer outside 1..5
BadLevel(level) == IsInt(level) /\ (ParseInt(level) < 1 \/ ParseInt(level) > 5)

\* C17: the levels of every skill are within 1..5, and an add or edit request
\* with a level outside 1..5 commits the skill table as it was
C17_LevelsInRange ==
    /\ \A sk \in skills :
           /\ sk.current_level >= 1 /\ sk.current_level <= 5
           /\ sk.target_level >= 1 /\ sk.target_level <= 5
    /\ \A q \in SkillAddRequests :
           BadLevel(q[3][1]) \/ BadLevel(q[3][2]) =>
               /\ StudentAddSkill(q[1], q[2], q[3][1], q[3][2]).skills = skills
               /\ SkillAddSkill(q[1], q[2], q[3][1], q[3][2]).skills = skills
    /\ \A q \in SkillEditRequests :
           BadLevel(q[4][1]) \/ BadLevel(q[4][2]) =>
               /\ StudentEditSkill(q[1], q[2], q[3], q[4][1], q[4][2]).skills = skills
               /\ SkillEditSkill(q[1], q[2], q[3], q[4][1], q[4][2]).skills = skills

\* the student blueprint's edit_skill has stored a level outside 1..5
C17_LevelOutOfRange ==
    /\ resp.op = "student_edit_skill"
    /\ resp.code = "ok"
    /\ \E sk \in skills : sk.current_level = 6 \/ sk.target_level = 0

\* C18: no user has two skills of one name, and an add or edit request whose
\* name another skill of the user has commits the skill table as it was
C18_UniqueSkillNames ==
    /\ \A a \in skills, b \in skills :
           a.user_id = b.user_id /\ a.name = b.name => a.id = b.id
    /\ \A q \in SkillAddRequests :
           (\E sk \in skills : sk.user_id = q[1] /\ sk.name = q[2]) =>
               /\ StudentAddSkill(q[1], q[2], q[3][1], q[3][2]).skills = skills
               /\ SkillAddSkill(q[1], q[2], q[3][1], q[3][2]).skills = skills
    /\ \A q \in SkillEditRequests :
           (\E sk \in skills : sk.user_id = q[1] /\ sk.name = q[3] /\ sk.id # q[2]) =>
               /\ StudentEditSkill(q[1], q[2], q[3], q[4][1], q[4][2]).skills = skills
               /\ SkillEditSkill(q[1], q[2], q[3], q[4][1], q[4][2]).skills = skills

\* the student blueprint's add_skill has given student 1 a second skill "py"
C18_DuplicateSkill ==
    /\ resp.op = "student_add_skill"
    /\ resp.code = "ok"
    /\ \E a \in skills, b \in skills :
           a.user_id = 1 /\ b.user_id = 1 /\ a.name = "py" /\ b.name = "py" /\ a.id # b.id

\* C19: when creating the notification fails, upload_certificate of an allowed
\* file still commits the new certificate row, and approve_certificate of an
\* existing certificate by an admin still commits its approved status
C19_NotifyFailureKeepsMutation ==
    /\ \A q \in UploadRequests :
           q[2] # "" /\ allowed_file(q[2]) /\ q[3] =>
               \E c \in UploadCertificate(q[1], q[2], q[3]).certificates \ certificates :
                   c.user_id = q[1] /\ c.status = 0
    /\ \A q \in ApproveRequests :
           users[q[1]] = ADMIN /\ CertExists(q[2]) /\ q[3] =>
               \E c \in ApproveCertificate(q[1], q[2], q[3]).certificates :
                   c.id = q[2] /\ c.status = 1

\* approve_certificate has failed on its notification and certificate 1 is
\* still pending
C19_ApprovalLost ==
    /\ resp.op = "approve_certificate"
    /\ resp.code = "error"
    /\ CertExists(1) /\ CertById(1).status = 0
    /\ \A c \in certificates : c.status = 0

\* the pair's enrollment row and grade row in result r both hold score v
BothCarry(r, sid, cid, v) ==
    /\ PairOf(r.enrollments, sid, cid) # {}
    /\ \A en \in PairOf(r.enrollments, sid, cid) : en.score = v
    /\ PairOf(r.grades, sid, cid) # {}
    /\ \A g \in PairOf(r.grades, sid, cid) : g.score = v

\* C20: a submit_score request, whether it succeeds, is refused or raises at a
\* step after the enrollment's score was assigned, commits either the new score
\* in both the pair's enrollment and its grade row or no change at all; the new
\* score of the input nan is the NULL that is stored for it
C20_AllOrNothing ==
    \A q \in FaultRequests :
        LET r == SubmitScoreAt(q[1], q[2], q[3], q[4], q[5])
        IN  \/ Unchanged(r)
            \/ /\ r.code = "ok"
               /\ \/ ValidScore(q[4]) /\ BothCarry(r, q[2], q[3], Some(FloatLit[q[4]]))
                  \/ q[4] = "nan" /\ BothCarry(r, q[2], q[3], None)

\* a submit_score has raised for a pair whose enrollment and grade row hold an
\* earlier score and the other pair's enrollment has none and no grade row
C20_Witness ==
    /\ resp = [op |-> "submit_score", code |-> "error", val |-> <<>>]
    /\ GradedRow(1, 1, Some(0)) \in Rows(enrollments)
    /\ GradedRow(1, 1, Some(0)) \in Rows(grades)
    /\ GradedRow(1, 2, None) \in Rows(enrollments)
    /\ PairOf(grades, "1", "2") = {}

\* C21: when upload_certificate has saved the file and the flush of the
\* certificate row, the creation of a notification or the commit raises, the
\* file is not in the upload folder afterwards and the certificate and
\* notification tables are as they were before the request
C21_UploadCleanup ==
    \A q \in UploadAtRequests :
        LET r == UploadCertificateAt(q[1], q[2], q[3], q[4])
        IN  q[4] \in {"flush", "notify", "commit"} /\ r.code = "error" =>
                /\ UniqueFilename(q[1], q[3], q[2]) \notin r.files
                /\ r.certificates = certificates
                /\ r.notifications = notifications

\* an upload has failed after an earlier one of the other student succeeded:
\* the earlier file, row and notification are there, the failed one's are not
C21_Witness ==
    /\ resp.op = "upload_certificate" /\ resp.code = "error"
    /\ resp.val = UniqueFilename(2, 1, "a.pdf")
    /\ files = {UniqueFilename(1, 1, "a.pdf")}
    /\ {c.user_id : c \in certificates} = {1}
    /\ {n.sender_id : n \in notifications} = {1}

\* C22: no (student, course) pair has more than one enrollment row, also in
\* the states that select_course requests handled at the same time reach
C22_OnePerPairInterleaved ==
    \A s \in UserIds, c \in CourseIds : PairCount(enrollments, s, c) <= 1

\* two select_course requests of student 1 for course 1 have both answered
\* that they selected one course, and the pair has two rows
C22_DuplicateEnrollment ==
    /\ resp = [op |-> "select_course", code |-> "ok", val |-> <<1>>]
    /\ \A w \in Workers : inflight[w] = Idle
    /\ PairCount(enrollments, 1, 1) = 2
    /\ PairCount(enrollments, 1, 2) = 0

\* C23: in every state that select_course, drop_course and submit_score reach,
\* an enrollment row and a grade row of the same (student, course) pair carry
\* the same score
C23_ScoresAgree ==
    \A en \in Rows(enrollments), g \in Rows(grades) :
        en.student_id = g.student_id /\ en.course_id = g.course_id => en.score = g.score

\* student 1 has selected course 1 again after a score of 100 was submitted and
\* the course dropped: the new enrollment has no score, the grade row has 100
C23_StaleGrade ==
    /\ resp.op = "select_course" /\ resp.code = "ok"
    /\ GradedRow(1, 1, None) \in Rows(enrollments)
    /\ GradedRow(1, 1, Some(1000)) \in Rows(grades)
    /\ PairCount(enrollments, 1, 1) = 1

\* C24: submit_score by a teacher for a course that another user owns, or that
\* nobody owns, is refused and commits the enrollment and grade tables as they
\* were
C24_OwnCourseOnly ==
    \A q \in Requests.submit :
        (/\ users[q[1]] = TEACHER
         /\ IsInt(q[3]) /\ CourseExists(ParseInt(q[3]))
         /\ CourseById(ParseInt(q[3])).teacher_id # Some(q[1])) =>
            /\ SubmitScore(q[1], q[2], q[3], q[4]).code # "ok"
            /\ Unchanged(SubmitScore(q[1], q[2], q[3], q[4]))

\* teacher 3 has submitted a score of 100 for student 1 in course 1, which
\* teacher 4 owns
C24_ForeignCourseGraded ==
    /\ resp.op = "submit_score" /\ resp.code = "ok"
    /\ CourseExists(1) /\ CourseById(1).teacher_id = Some(4)
    /\ GradedRow(1, 1, Some(1000)) \in Rows(enrollments)
    /\ GradedRow(1, 1, Some(1000)) \in Rows(grades)

\* result r keeps every score: the grade table is as before, and every
\* enrollment row of r that has a score was there before, as often
KeepsScores(r) ==
    /\ r.grades = grades
    /\ \A en \in Rows(r.enrollments) :
           en.score # None =>
               CopiesIn(en, r.enrollments) <= CopiesIn(en, enrollments)

\* result r removes no enrollment row
KeepsRows(r) ==
    \A en \in Rows(enrollments) : CopiesIn(en, enrollments) <= CopiesIn(en, r.enrollments)

\* C25: no request of a student sets or changes the score of an enrollment or
\* of a grade row: update_course_score and update_score commit the tables as
\* they were, select_course adds only rows without a score, submit_score and
\* the course delete are refused, and only drop_course removes a row, one of
\* the student's own
C25_StudentsWriteNoScore ==
    /\ \A q \in UpdateRequests :
           users[q[1]] = STUDENT =>
               /\ Unchanged(UpdateCourseScore(q[1], q[2], q[3]))
               /\ Unchanged(UpdateScore(q[1], q[2], q[3]))
    /\ \A q \in ScoreRequests.select :
           users[q[1]] = STUDENT =>
               KeepsScores(SelectCourse(q[1], q[2])) /\ KeepsRows(SelectCourse(q[1], q[2]))
    /\ \A q \in ScoreRequests.submit :
           users[q[1]] = STUDENT => Unchanged(SubmitScore(q[1], q[2], q[3], q[4]))
    /\ \A q \in CourseDeleteRequests :
           users[q[1]] = STUDENT => Unchanged(CourseDeleteCourse(q[1], q[2]))
    /\ \A q \in ScoreRequests.drop :
           users[q[1]] = STUDENT =>
               /\ KeepsScores(DropCourse(q[1], q[2]))
               /\ \A en \in Rows(enrollments) :
                      CopiesIn(en, DropCourse(q[1], q[2]).enrollments) < enrollments[en] =>
                          en.student_id = q[1] /\ en.course_id = q[2]

\* update_course_score of student 1 for the selected course 1 has answered
\* success, and the enrollment and the grade row still have the teacher's 0
C25_Witness ==
    /\ resp.op = "update_course_score" /\ resp.code = "ok"
    /\ GradedRow(1, 1, Some(0)) \in Rows(enrollments)
    /\ GradedRow(1, 1, Some(0)) \in Rows(grades)

\* C26: every enrollment row names a course of the course table, and
\* select_course adds no row for a course id that names no course
C26_EnrollmentsNameCourses ==
    /\ \A en \in Rows(enrollments) : CourseExists(en.course_id)
    /\ \A q \in Requests.select :
           \A en \in Rows(SelectCourse(q[1], q[2]).enrollments) :
               en \notin Rows(enrollments) => CourseExists(en.course_id)

\* select_course has answered that it selected two courses while the course
\* table is empty, and the student has a row for course 1 and for course 2
C26_DanglingEnrollment ==
    /\ resp = [op |-> "select_course", code |-> "ok", val |-> <<2>>]
    /\ courses = {}
    /\ PairCount(enrollments, 1, 1) = 1
    /\ PairCount(enrollments, 1, 2) = 1

\* C27: no (student, course) pair has more than one grade row, also in the
\* states that submit_score requests handled at the same time reach; and when
\* no request is in flight, the enrollment of a pair and its grade row carry
\* the same score
C27_OneGradeAndEqual ==
    /\ \A g \in Rows(grades) : PairCount(grades, g.student_id, g.course_id) = 1
    /\ (\A w \in Workers : inflight[w] = Idle) =>
           \A en \in Rows(enrollments), g \in Rows(grades) :
               en.student_id = g.student_id /\ en.course_id = g.course_id =>
                   en.score = g.score

\* two submit_score requests for student 1 in course 1 have both answered
\* success; the enrollment has the 100 of the one and the grade row the 0 of
\* the other
C27_LostUpdate ==
    /\ resp.op = "submit_score" /\ resp.code = "ok"
    /\ \A w \in Workers : inflight[w] = Idle
    /\ Rows(enrollments) = {GradedRow(1, 1, Some(1000))}
    /\ Rows(grades) = {GradedRow(1, 1, Some(0))}

\* the GPA loop leaves the one enrollment en out of its sums
GpaExcludes(en) == GpaLoop(OneRow(en), 0, 0, FALSE).credits = 0

\* C28: for every enrollment in a course of a teacher, score_manage shows it
\* as not graded exactly when its score is absent, and the GPA computation
\* leaves it out exactly when its score is absent; so for the score 0 as well
C28_ViewsAgree ==
    \A u \in UserIds, en \in Rows(enrollments) :
        (/\ users[u] = TEACHER
         /\ CourseExists(en.course_id)
         /\ CourseById(en.course_id).teacher_id = Some(u)
         /\ CourseById(en.course_id).credit > 0) =>
            /\ ScoreEntry(en) \in ScoreManage(u).val
            /\ ScoreEntry(en).score = NOT_GRADED <=> en.score = None
            /\ GpaExcludes(en) <=> en.score = None

\* teacher 3 has listed the scores: student 1 in course 1 has the score 0, which
\* the list shows as not graded and the GPA computation counts
C28_ZeroShownUngraded ==
    /\ resp.op = "score_manage" /\ resp.code = "ok"
    /\ GradedRow(1, 1, Some(0)) \in Rows(enrollments)
    /\ [course_id |-> 1, student_id |-> 1, score |-> NOT_GRADED] \in resp.val
    /\ ~GpaExcludes(GradedRow(1, 1, Some(0)))

\* C29: delete_user by an admin for an existing user who is no admin and not
\* the caller succeeds whatever rows the user has: the user and the user's
\* enrollments are gone afterwards, and every course the user owned is still
\* there without an owner
C29_DeleteAlwaysSucceeds ==
    \A q \in DeleteRequests :
        (/\ q[1] \in UserIds /\ users[q[1]] = ADMIN
         /\ q[2] \in UserIds /\ users[q[2]] # ADMIN /\ q[2] # q[1]) =>
            LET r == DeleteUser(q[1], q[2])
            IN  /\ r.code = "ok"
                /\ q[2] \notin DOMAIN r.users
                /\ OfStudent(r.enrollments, q[2]) = {}
                /\ \A c \in courses :
                       c.teacher_id = Some(q[2]) =>
                           [c EXCEPT !.teacher_id = None] \in r.courses

\* the admin's delete_user of student 1, who has a grade row, has failed:
\* the student and the student's enrollment are still there
C29_DeleteBlocked ==
    /\ resp.op = "delete_user" /\ resp.code = "error"
    /\ 1 \in UserIds
    /\ OfStudent(grades, 1) # {}
    /\ OfStudent(enrollments, 1) # {}
    /\ \A n \in notifications : n.recipient_id # 1

\* result r of delete_user commits every table as it was
NothingDeleted(r) == r = DeleteFail(r.code)

\* C30: delete_user refuses, with no table changed, to delete a user whose role
\* is admin and to delete the caller; and no step takes a user with the role
\* admin out of the user table or gives that user another role
C30_AdminsStay ==
    /\ [](\A q \in DeleteRequests :
              (/\ q[1] \in UserIds /\ q[2] \in UserIds
               /\ (users[q[2]] = ADMIN \/ q[2] = q[1])) =>
                  /\ DeleteUser(q[1], q[2]).code \in {"forbidden", "validation"}
                  /\ NothingDeleted(DeleteUser(q[1], q[2])))
    /\ [][\A id \in AdminUsers : id \in DOMAIN users' /\ users'[id] = ADMIN]_vars

\* the admin that add_user created has asked to delete the first admin and
\* was refused, after a delete_user that removed student 2: both admins are
\* there
C30_Witness ==
    /\ resp.op = "delete_user" /\ resp.code = "validation"
    /\ AdminUsers = {5, 6}
    /\ 2 \notin UserIds

====
